---- MODULE Spec2Model ----
(***************************************************************************)
(* archtest: the import scanner of src/src/index.js (walkDir,              *)
(* extractImports, resolveImportPath, scanCodebase, detectSuspiciousDirs,  *)
(* filterScanResults, formatInterview) as a state machine over a           *)
(* filesystem snapshot.                                                    *)
(*                                                                         *)
(* A path is a sequence of segments (the string split at the separator);   *)
(* the empty sequence is the empty string.  A segment is a string, so      *)
(* appending an extension is string concatenation on the last segment.     *)
(***************************************************************************)
EXTENDS Integers, Sequences, FiniteSets, TLC

VARIABLES
    fsys,        \* the files on disk: a set of paths relative to the Base Directory
    unreadable,  \* the directories (relative to the Base Directory) whose listing fails
    text,        \* text[f]: the import statements of file f, in content order
    cfg,         \* the options handed to scanCodebase: extensions, importPatterns, skipDirs
    heap,        \* the scan-result objects allocated so far; an object's identity is its index
    scan,        \* reference (heap index) of the scanCodebase result, 0 before the scan
    resolveLog,  \* the resolveImportPath calls the scan made: token, importing file, result
    call         \* the last library call after the scan: its arguments and its result

vars == <<fsys, unreadable, text, cfg, heap, scan, resolveLog, call>>

----------------------------------------------------------------------------
(* Bounds of the model *)

\* files on disk besides the importing file, in the resolver worlds
MaxOtherFiles == 2

\* import statements in the importing file, in the extraction worlds
MaxStatements == 3

\* import statements in the whole tree, in the graph worlds
MaxGraphImports == 3

\* the small file counts of a directory and the small thresholds, in the
\* detection worlds (the counts around the default threshold come besides)
MaxSmallCount == 2

\* directories in an exclude list
MaxExclude == 2

\* statements in a file of the pattern worlds
MaxRegexStatements == 2

\* the greatest page number a caller asks for
MaxPage == 6

\* mappings in an Alias Map
MaxAliases == 3

----------------------------------------------------------------------------
(* Strings *)

\* the names that begin with two dots: what String.startsWith('..') accepts
DotDotNames == {"..", "..x"}

\* the names that begin with a dot: what String.startsWith('.') accepts
DotNames == DotDotNames \cup {".", ".env", ".ts", ".js"}

\* the names that begin with '@'
AtNames == {"@", "@s"}

KnownExts == {".ts", ".js"}

\* the name of the i-th generated file of a large directory, without extension
FileStem(i) == "f" \o ToString(i)

Stems == {"index", "util", "m", "Button"} \cup {FileStem(i) : i \in 1..(50 + 1)}

\* path.extname of a basename: the text from the last dot, "" when there is none
\* or when the only dot is the first character
ExtName(name) ==
    LET hits == {e \in KnownExts : \E s \in Stems : name = s \o e}
    IN  IF hits = {} THEN "" ELSE CHOOSE e \in hits : TRUE

\* the absolute path of the Base Directory
BaseAbs == <<"srv", "proj">>

Last(s) == s[Len(s)]

Front(s) == SubSeq(s, 1, Len(s) - 1)

\* path.dirname of a relative path: "." for a path of one segment
Dirname(p) == IF Len(p) <= 1 THEN <<".">> ELSE Front(p)

Basename(p) == IF p = <<>> THEN "" ELSE Last(p)

\* str + ext on a path: the extension is appended to the last segment
AppendExt(p, e) == IF p = <<>> THEN <<e>> ELSE Front(p) \o <<Last(p) \o e>>

\* path.join(rel, 'index' + ext)
JoinIndex(p, e) == p \o <<"index" \o e>>

RECURSIVE ResolveFrom(_, _)
\* path.resolve(dir, importStr) for an absolute dir: '.' is dropped, '..' pops
ResolveFrom(abs, segs) ==
    IF segs = <<>> THEN abs
    ELSE LET s == Head(segs)
         IN  IF s = "." THEN ResolveFrom(abs, Tail(segs))
             ELSE IF s = ".." THEN ResolveFrom(IF abs = <<>> THEN abs ELSE Front(abs), Tail(segs))
             ELSE ResolveFrom(Append(abs, s), Tail(segs))

RECURSIVE CommonLen(_, _)
CommonLen(a, b) ==
    IF a = <<>> \/ b = <<>> \/ Head(a) # Head(b) THEN 0
    ELSE 1 + CommonLen(Tail(a), Tail(b))

\* path.relative(from, to) for absolute paths: one '..' per segment of from that
\* is not shared, then the rest of to
Relative(from, to) ==
    LET c == CommonLen(from, to)
    IN  [i \in 1..(Len(from) - c) |-> ".."] \o SubSeq(to, c + 1, Len(to))

\* str.startsWith('..') on a path string
StartsWithDotDot(p) == p # <<>> /\ Head(p) \in DotDotNames

\* str.startsWith('.') on a token
StartsWithDot(p) == p # <<>> /\ Head(p) \in DotNames

StartsWithAt(p) == p # <<>> /\ Head(p) \in AtNames

\* the value of an option (a list) that the caller does not pass
Undefined == <<"undefined">>

Null == [null |-> TRUE, path |-> <<>>]

Just(p) == [null |-> FALSE, path |-> p]

\* JavaScript truthiness of a string-or-null result: null and '' are falsy
Truthy(r) == ~r.null /\ r.path # <<>>

Range(s) == {s[i] : i \in 1..Len(s)}

Includes(s, x) == \E i \in 1..Len(s) : s[i] = x

RECURSIVE SetToSeq(_)
\* the members of a set in some fixed order (the order readdir returns them in)
SetToSeq(S) ==
    IF S = {} THEN <<>>
    ELSE LET x == CHOOSE y \in S : TRUE IN <<x>> \o SetToSeq(S \ {x})

----------------------------------------------------------------------------
(* String order *)

\* the characters of the names that are compared or sorted
Chars(name) ==
    CASE name = "."        -> <<".">>
      [] name = ".."       -> <<".", ".">>
      [] name = "..x"      -> <<".", ".", "x">>
      [] name = ".env"     -> <<".", "e", "n", "v">>
      [] name = "a"        -> <<"a">>
      [] name = "b"        -> <<"b">>
      [] name = "c"        -> <<"c">>
      [] name = "m.ts"     -> <<"m", ".", "t", "s">>
      [] name = "index.ts" -> <<"i", "n", "d", "e", "x", ".", "t", "s">>
      [] name = "index.js" -> <<"i", "n", "d", "e", "x", ".", "j", "s">>
      [] name = "util.ts"  -> <<"u", "t", "i", "l", ".", "t", "s">>
      [] name = "util.js"  -> <<"u", "t", "i", "l", ".", "j", "s">>
      [] name = "util"     -> <<"u", "t", "i", "l">>
      [] name = "sub"      -> <<"s", "u", "b">>
      [] name = "vendor"   -> <<"v", "e", "n", "d", "o", "r">>
      [] name = "vendor2"  -> <<"v", "e", "n", "d", "o", "r", "2">>
      [] name = "lib"      -> <<"l", "i", "b">>
      [] name = "components" -> <<"c", "o", "m", "p", "o", "n", "e", "n", "t", "s">>
      [] OTHER             -> <<name>>

Letters == <<"a", "b", "c", "d", "e", "f", "g", "h", "i", "j", "k", "l", "m",
             "n", "o", "p", "q", "r", "s", "t", "u", "v", "w", "x", "y", "z">>

LetterIndex(ch) == IF Includes(Letters, ch) THEN CHOOSE i \in 1..Len(Letters) : Letters[i] = ch ELSE 27

\* the UTF-16 code unit of a character: what < and Array.prototype.sort compare
CodeUnit(ch) ==
    CASE ch = "." -> 46
      [] ch = "/" -> 47
      [] ch = "2" -> 50
      [] ch = "@" -> 64
      [] OTHER    -> 96 + LetterIndex(ch)

\* the collation rank of a character: what String.prototype.localeCompare
\* compares (punctuation, then digits, then letters)
CollationRank(ch) ==
    CASE ch = "." -> 1
      [] ch = "@" -> 2
      [] ch = "/" -> 3
      [] ch = "2" -> 10
      [] OTHER    -> 20 + LetterIndex(ch)

RECURSIVE PathChars(_)
\* the characters of parts.join(path.sep)
PathChars(p) ==
    IF p = <<>> THEN <<>>
    ELSE IF Len(p) = 1 THEN Chars(p[1])
    ELSE Chars(Head(p)) \o <<"/">> \o PathChars(Tail(p))

RECURSIVE SeqLess(_, _, _)
\* lexicographic order of two character sequences; byCode chooses code units
\* or collation ranks
SeqLess(a, b, byCode) ==
    IF b = <<>> THEN FALSE
    ELSE IF a = <<>> THEN TRUE
    ELSE LET x == IF byCode THEN CodeUnit(Head(a)) ELSE CollationRank(Head(a))
             y == IF byCode THEN CodeUnit(Head(b)) ELSE CollationRank(Head(b))
         IN  IF x # y THEN x < y ELSE SeqLess(Tail(a), Tail(b), byCode)

\* a < b on two strings
StrLess(a, b) == SeqLess(PathChars(a), PathChars(b), TRUE)

\* a.localeCompare(b) < 0
LocaleLess(a, b) == SeqLess(PathChars(a), PathChars(b), FALSE)

RECURSIVE InsertSorted(_, _, _)
InsertSorted(sorted, x, byCode) ==
    IF sorted = <<>> THEN <<x>>
    ELSE IF SeqLess(PathChars(x), PathChars(Head(sorted)), byCode) THEN <<x>> \o sorted
    ELSE <<Head(sorted)>> \o InsertSorted(Tail(sorted), x, byCode)

RECURSIVE SortPaths(_, _)
\* a stable sort of a sequence of paths
SortPaths(s, byCode) ==
    IF s = <<>> THEN <<>>
    ELSE InsertSorted(SortPaths(Front(s), byCode), Last(s), byCode)

----------------------------------------------------------------------------
(* resolveImportPath *)

RECURSIVE FirstWithExt(_, _, _)
FirstWithExt(rel, exts, sourceFileSet) ==
    IF exts = <<>> THEN Null
    ELSE IF AppendExt(rel, Head(exts)) \in sourceFileSet THEN Just(AppendExt(rel, Head(exts)))
    ELSE FirstWithExt(rel, Tail(exts), sourceFileSet)

RECURSIVE FirstIndex(_, _, _)
FirstIndex(rel, exts, sourceFileSet) ==
    IF exts = <<>> THEN Null
    ELSE IF JoinIndex(rel, Head(exts)) \in sourceFileSet THEN Just(JoinIndex(rel, Head(exts)))
    ELSE FirstIndex(rel, Tail(exts), sourceFileSet)

\* resolveImportPath without the test for a path that leaves the Base Directory
resolveImportPath_NoEscapeTest(importStr, importingFile, extensions, sourceFileSet) ==
    LET dir      == Front(importingFile)
        resolved == ResolveFrom(dir, importStr)
        rel      == Relative(BaseAbs, resolved)
        withExt  == FirstWithExt(rel, extensions, sourceFileSet)
        asIndex  == FirstIndex(rel, extensions, sourceFileSet)
    IN  IF rel \in sourceFileSet THEN Just(rel)
        ELSE IF ~withExt.null THEN withExt
        ELSE IF ~asIndex.null THEN asIndex
        ELSE Just(rel)

\* resolveImportPath(importStr, importingFile, baseDir, extensions, sourceFileSet):
\* null for a path that leaves the Base Directory, else the exact match, the first
\* match with an extension, the first index file, or the relative path itself
resolveImportPath(importStr, importingFile, extensions, sourceFileSet) ==
    LET dir      == Front(importingFile)
        resolved == ResolveFrom(dir, importStr)
        rel      == Relative(BaseAbs, resolved)
        withExt  == FirstWithExt(rel, extensions, sourceFileSet)
        asIndex  == FirstIndex(rel, extensions, sourceFileSet)
    IN  IF StartsWithDotDot(rel) THEN Null
        ELSE IF rel \in sourceFileSet THEN Just(rel)
        ELSE IF ~withExt.null THEN withExt
        ELSE IF ~asIndex.null THEN asIndex
        ELSE Just(rel)

----------------------------------------------------------------------------
(* Alias resolution: the step of the resolver for a non-relative token. A   *)
(* prefix is the sequence of its segments, each followed by a separator;    *)
(* an empty last segment of a token stands for a trailing separator.        *)

NoAlias == [prefix |-> <<>>, target |-> <<>>]

NoResolution == [matched |-> FALSE, alias |-> NoAlias, result |-> Null]

RECURSIVE PrefixLength(_)
\* the length of a prefix string
PrefixLength(prefix) ==
    IF prefix = <<>> THEN 0
    ELSE Len(Chars(Head(prefix))) + 1 + PrefixLength(Tail(prefix))

\* a match that needs something after the prefix
MatchesPrefix_NeedsRemainder(token, prefix) ==
    /\ Len(token) > Len(prefix) /\ SubSeq(token, 1, Len(prefix)) = prefix
    /\ token[Len(prefix) + 1] # ""

\* the literal-prefix match of a prefix on a token
MatchesPrefix(token, prefix) ==
    Len(token) > Len(prefix) /\ SubSeq(token, 1, Len(prefix)) = prefix

\* the aliases in the order they were configured
SortByPrefixLength_AsConfigured(aliases) == aliases

RECURSIVE InsertByPrefixLength(_, _)
InsertByPrefixLength(sorted, a) ==
    IF sorted = <<>> THEN <<a>>
    ELSE IF PrefixLength(a.prefix) > PrefixLength(Head(sorted).prefix) THEN <<a>> \o sorted
    ELSE <<Head(sorted)>> \o InsertByPrefixLength(Tail(sorted), a)

RECURSIVE SortByPrefixLength(_)
\* the aliases, longest prefix first
SortByPrefixLength(aliases) ==
    IF aliases = <<>> THEN <<>>
    ELSE InsertByPrefixLength(SortByPrefixLength(Front(aliases)), Last(aliases))

\* the join of the alias's target directory and the rest of the token
MappedPath(alias, token) ==
    SelectSeq(alias.target \o SubSeq(token, Len(alias.prefix) + 1, Len(token)),
              LAMBDA seg : seg # "")

\* the alias step: the first alias, longest prefix first, that matches the token;
\* its mapped path goes through the cascade of resolveImportPath, a path that
\* leaves the Base Directory is discarded, and a path that matches no file stays
\* as the mapped path
resolveAlias(token, aliases, extensions, sourceFileSet) ==
    LET sorted == SortByPrefixLength(aliases)
        hits   == {i \in 1..Len(sorted) : MatchesPrefix(token, sorted[i].prefix)}
    IN  IF hits = {} THEN NoResolution
        ELSE LET alias   == sorted[CHOOSE i \in hits : \A j \in hits : i <= j]
                 rel     == Relative(BaseAbs, ResolveFrom(BaseAbs, MappedPath(alias, token)))
                 withExt == FirstWithExt(rel, extensions, sourceFileSet)
                 asIndex == FirstIndex(rel, extensions, sourceFileSet)
             IN  [matched |-> TRUE, alias |-> alias,
                  result |-> IF rel # <<>> /\ Head(rel) = ".." THEN Null
                             ELSE IF rel \in sourceFileSet THEN Just(rel)
                             ELSE IF ~withExt.null THEN withExt
                             ELSE IF ~asIndex.null THEN asIndex
                             ELSE Just(rel)]

----------------------------------------------------------------------------
(* walkDir *)

DEFAULT_SKIP_DIRS ==
    {"node_modules", ".git", ".next", "dist", "build", "_generated",
     "coverage", ".turbo", ".cache"}

\* fs.readdirSync(dir): the names of the entries directly inside dir
EntryNames(dir, disk) ==
    {f[Len(dir) + 1] : f \in {g \in disk : Len(g) > Len(dir) /\ SubSeq(g, 1, Len(dir)) = dir}}

\* entry.isDirectory(): the entry has something below it
IsDirectory(p, disk) == \E g \in disk : Len(g) > Len(p) /\ SubSeq(g, 1, Len(p)) = p

RECURSIVE walkDir(_, _, _)
RECURSIVE WalkEntries(_, _, _, _, _, _)
\* the loop over the entries lo..hi of a directory, taken by halves: the results
\* come in the order of the entries
WalkEntries(dir, names, lo, hi, skip, disk) ==
    IF lo > hi THEN <<>>
    ELSE IF lo = hi
    THEN LET name == names[lo]
             full == Append(dir, name)
         IN  IF name \in skip THEN <<>>
             ELSE IF IsDirectory(full, disk) THEN walkDir(full, skip, disk)
             ELSE <<full>>
    ELSE LET mid == (lo + hi) \div 2
         IN  WalkEntries(dir, names, lo, mid, skip, disk) \o WalkEntries(dir, names, mid + 1, hi, skip, disk)

walkDir(dir, skip, disk) ==
    LET names == SetToSeq(EntryNames(dir, disk))
    IN  WalkEntries(dir, names, 1, Len(names), skip, disk)

\* walkDir catching the failure of a listing and going on with the other entries
walkDirThrows_Caught(dir, skip, disk, dirs) == FALSE

RECURSIVE walkDirThrows(_, _, _, _)
\* fs.readdirSync throws somewhere in walkDir(dir, skip): for dir itself or, since
\* nothing catches it, for a directory that the loop over the entries walks into.
\* The paths are relative to the Base Directory.
walkDirThrows(dir, skip, disk, dirs) ==
    \/ dir \in dirs
    \/ \E name \in EntryNames(dir, disk) :
          /\ name \notin skip
          /\ IsDirectory(Append(dir, name), disk)
          /\ walkDirThrows(Append(dir, name), skip, disk, dirs)

----------------------------------------------------------------------------
(* extractImports *)

\* The default patterns, by name: require('..'), import/export .. from '..',
\* import '..'
DEFAULT_IMPORT_PATTERNS == <<"require", "from", "side">>

RECURSIVE PushMatches(_, _, _)
\* the while loop over regex.exec(content) for one pattern
PushMatches(imports, stmts, pattern) ==
    IF stmts = <<>> THEN imports
    ELSE LET s == Head(stmts)
             next == IF s.pat = pattern /\ s.tok # <<>> /\ ~Includes(imports, s.tok)
                     THEN Append(imports, s.tok)
                     ELSE imports
         IN  PushMatches(next, Tail(stmts), pattern)

RECURSIVE ExtractLoop(_, _, _)
ExtractLoop(imports, content, patterns) ==
    IF patterns = <<>> THEN imports
    ELSE ExtractLoop(PushMatches(imports, content, Head(patterns)), content, Tail(patterns))

\* extractImports(filePath, importPatterns) on the content of the file; the
\* default patterns stand in for patterns that are not passed
extractImports(content, importPatterns) ==
    LET patterns == IF importPatterns = Undefined THEN DEFAULT_IMPORT_PATTERNS ELSE importPatterns
    IN  ExtractLoop(<<>>, content, patterns)

----------------------------------------------------------------------------
(* extractImports step by step: the pattern objects, regex.exec and the     *)
(* loops. A pattern object has a source (the name of the statements it      *)
(* matches), the global flag, a lastIndex, and may be able to match the     *)
(* empty string. The content is a sequence of statements; position p is     *)
(* the point after p statements.                                            *)

NoRegex == [name |-> "", global |-> FALSE, empty |-> FALSE, lastIndex |-> 0, shared |-> FALSE]

NoMatch == [null |-> TRUE, index |-> 0, tok |-> <<>>, lastIndex |-> 0]

\* the pattern object itself in place of a clone
CloneRegex_SameObject(pattern) ==
    [name |-> pattern.name, global |-> pattern.global, empty |-> pattern.empty,
     lastIndex |-> pattern.lastIndex, shared |-> TRUE]

\* new RegExp(pattern.source, pattern.flags): a new object, lastIndex 0
CloneRegex(pattern) ==
    [name |-> pattern.name, global |-> pattern.global, empty |-> pattern.empty,
     lastIndex |-> 0, shared |-> FALSE]

\* regex.exec(content): the match and the lastIndex of the regex after the call.
\* Without the global flag the search starts at 0 and lastIndex is left alone;
\* with it the search starts at lastIndex, which becomes the end of the match,
\* or 0 when nothing matches. A match of the empty string ends where it starts.
exec(regex, content) ==
    LET start == IF regex.global THEN regex.lastIndex ELSE 0
        hits  == {i \in (start + 1)..Len(content) : content[i].pat = regex.name}
        first == CHOOSE i \in hits : \A j \in hits : i <= j
    IN  IF start > Len(content)
        THEN [NoMatch EXCEPT !.lastIndex = IF regex.global THEN 0 ELSE regex.lastIndex]
        ELSE IF regex.empty /\ (start + 1) \notin hits
        THEN [null |-> FALSE, index |-> start, tok |-> <<>>,
              lastIndex |-> IF regex.global THEN start ELSE regex.lastIndex]
        ELSE IF hits = {}
        THEN [NoMatch EXCEPT !.lastIndex = IF regex.global THEN 0 ELSE regex.lastIndex]
        ELSE [null |-> FALSE, index |-> first - 1, tok |-> content[first].tok,
              lastIndex |-> IF regex.global THEN first ELSE regex.lastIndex]

\* the pattern object of the configuration as a regex leaves it
PatternOf(regex) ==
    [name |-> regex.name, global |-> regex.global, empty |-> regex.empty,
     lastIndex |-> regex.lastIndex]

----------------------------------------------------------------------------
(* scanCodebase *)

\* Array.prototype.filter with a membership test
Filter(s, keep) == SelectSeq(s, LAMBDA x : x \in keep)

\* Map.get(key).push(val), with Map.set(key, []) first when the key is new
TreePush(tree, key, val) ==
    IF \E i \in 1..Len(tree) : tree[i].dir = key
    THEN LET i == CHOOSE j \in 1..Len(tree) : tree[j].dir = key
         IN  [tree EXCEPT ![i].files = Append(@, val)]
    ELSE Append(tree, [dir |-> key, files |-> <<val>>])

RECURSIVE TreeMerge(_, _)
\* the pushes that built the second tree, replayed on the first
TreeMerge(tree, more) ==
    IF more = <<>> THEN tree
    ELSE LET e == Last(more)
             t == TreeMerge(tree, Front(more))
         IN  IF \E i \in 1..Len(t) : t[i].dir = e.dir
             THEN LET i == CHOOSE j \in 1..Len(t) : t[j].dir = e.dir
                  IN  [t EXCEPT ![i].files = @ \o e.files]
             ELSE Append(t, e)

RECURSIVE BuildTree(_, _, _)
\* the loop over sourceFiles[lo..hi] that fills the Directory Tree, taken by halves
BuildTree(sourceFiles, lo, hi) ==
    IF lo > hi THEN <<>>
    ELSE IF lo = hi
    THEN LET rel == Relative(BaseAbs, sourceFiles[lo])
         IN  TreePush(<<>>, Dirname(rel), Basename(rel))
    ELSE LET mid == (lo + hi) \div 2
         IN  TreeMerge(BuildTree(sourceFiles, lo, mid), BuildTree(sourceFiles, mid + 1, hi))

\* the first path segment of a file, '.' for a file of the root
TopDir(rel) == IF Len(rel) > 1 THEN rel[1] ELSE "."

\* the package name of a non-relative token: two segments of a scoped name, else one
PkgName(imp) == IF StartsWithAt(imp) THEN SubSeq(imp, 1, IF Len(imp) < 2 THEN Len(imp) ELSE 2)
                ELSE <<imp[1]>>

\* externalDeps.get(pkg).add(dir), with externalDeps.set(pkg, new Set()) first
ExtAdd(deps, pkg, dir) ==
    IF \E i \in 1..Len(deps) : deps[i].pkg = pkg
    THEN LET i == CHOOSE j \in 1..Len(deps) : deps[j].pkg = pkg
         IN  [deps EXCEPT ![i].dirs = IF Includes(@, dir) THEN @ ELSE Append(@, dir)]
    ELSE Append(deps, [pkg |-> pkg, dirs |-> <<dir>>])

RECURSIVE ImportLoop(_, _, _, _, _)
\* the loop over one file's imports; acc holds internal, external, externalDeps and
\* the record of the resolveImportPath calls
ImportLoop(acc, imports, file, ext, sourceFileSet) ==
    IF imports = <<>> THEN acc
    ELSE LET imp == Head(imports)
             rel == Relative(BaseAbs, file)
             resolved == resolveImportPath(imp, file, ext, sourceFileSet)
             pkgName == PkgName(imp)
             next ==
                IF StartsWithDot(imp)
                THEN [acc EXCEPT
                        !.internal = IF Truthy(resolved) /\ ~Includes(@, resolved.path)
                                     THEN Append(@, resolved.path) ELSE @,
                        !.log = Append(@, [imp |-> imp, file |-> file, result |-> resolved])]
                ELSE [acc EXCEPT
                        !.external = IF ~Includes(@, pkgName) THEN Append(@, pkgName) ELSE @,
                        !.externalDeps = ExtAdd(@, pkgName, TopDir(rel))]
         IN  ImportLoop(next, Tail(imports), file, ext, sourceFileSet)

RECURSIVE AddDirs(_, _, _)
\* externalDeps.get(pkg).add(dir) for each dir of dirs
AddDirs(deps, pkg, dirs) ==
    IF dirs = <<>> THEN deps ELSE ExtAdd(AddDirs(deps, pkg, Front(dirs)), pkg, Last(dirs))

RECURSIVE ExtMerge(_, _)
\* the additions that built the second map, replayed on the first
ExtMerge(deps, more) ==
    IF more = <<>> THEN deps
    ELSE AddDirs(ExtMerge(deps, Front(more)), Last(more).pkg, Last(more).dirs)

\* the body of the loop over sourceFiles, for one file
FileStep(file, content, importPatterns, ext, sourceFileSet) ==
    LET rel == Relative(BaseAbs, file)
        imports == extractImports(content[rel], importPatterns)
        r == ImportLoop([internal |-> <<>>, external |-> <<>>, externalDeps |-> <<>>, log |-> <<>>],
                        imports, file, ext, sourceFileSet)
    IN  [fileDependencies |->
            IF r.internal # <<>> \/ r.external # <<>>
            THEN <<[file |-> rel, internal |-> r.internal, external |-> r.external]>>
            ELSE <<>>,
         externalDeps |-> r.externalDeps,
         log |-> r.log]

RECURSIVE FileLoop(_, _, _, _, _, _, _)
\* the loop over sourceFiles[lo..hi] that fills fileDependencies and externalDeps,
\* taken by halves
FileLoop(files, lo, hi, content, importPatterns, ext, sourceFileSet) ==
    IF lo > hi THEN [fileDependencies |-> <<>>, externalDeps |-> <<>>, log |-> <<>>]
    ELSE IF lo = hi THEN FileStep(files[lo], content, importPatterns, ext, sourceFileSet)
    ELSE LET mid == (lo + hi) \div 2
             a == FileLoop(files, lo, mid, content, importPatterns, ext, sourceFileSet)
             b == FileLoop(files, mid + 1, hi, content, importPatterns, ext, sourceFileSet)
         IN  [fileDependencies |-> a.fileDependencies \o b.fileDependencies,
              externalDeps |-> ExtMerge(a.externalDeps, b.externalDeps),
              log |-> a.log \o b.log]

EmptyScan ==
    [directoryTree |-> <<>>, sourceFiles |-> <<>>, fileDependencies |-> <<>>, externalDeps |-> <<>>]

\* scanCodebase taking '.ts' for extensions that are not supplied
scanCodebase_DefaultExtensions(disk, content, options) ==
    LET ext == IF options.extensions = Undefined \/ options.extensions = <<>>
               THEN <<".ts">> ELSE options.extensions
        allFiles == walkDir(BaseAbs, options.skipDirs, {BaseAbs \o f : f \in disk})
        sourceFiles == Filter(allFiles, {f \in Range(allFiles) : ExtName(Basename(f)) \in Range(ext)})
        directoryTree == BuildTree(sourceFiles, 1, Len(sourceFiles))
        sourceFileSet == {Relative(BaseAbs, f) : f \in Range(sourceFiles)}
        r == FileLoop(sourceFiles, 1, Len(sourceFiles), content, options.importPatterns, ext, sourceFileSet)
    IN  [result |-> [directoryTree |-> directoryTree, sourceFiles |-> sourceFiles,
                     fileDependencies |-> r.fileDependencies,
                     externalDeps |-> r.externalDeps],
         log |-> r.log]

\* scanCodebase(baseDir, {extensions, importPatterns, skipDirs}) over the files on
\* disk; .log is the record of the resolveImportPath calls it made
scanCodebase(disk, content, options) ==
    LET ext == options.extensions
        allFiles == walkDir(BaseAbs, options.skipDirs, {BaseAbs \o f : f \in disk})
        sourceFiles == Filter(allFiles, {f \in Range(allFiles) : ExtName(Basename(f)) \in Range(ext)})
        directoryTree == BuildTree(sourceFiles, 1, Len(sourceFiles))
        sourceFileSet == {Relative(BaseAbs, f) : f \in Range(sourceFiles)}
        r == FileLoop(sourceFiles, 1, Len(sourceFiles), content, options.importPatterns, ext, sourceFileSet)
    IN  IF ext = Undefined \/ ext = <<>>
        THEN [result |-> EmptyScan, log |-> <<>>]
        ELSE [result |-> [directoryTree |-> directoryTree, sourceFiles |-> sourceFiles,
                          fileDependencies |-> r.fileDependencies,
                          externalDeps |-> r.externalDeps],
              log |-> r.log]


----------------------------------------------------------------------------
(* detectSuspiciousDirs *)

DefaultThreshold == 50

RECURSIVE InsertByCount(_, _)
\* Array.prototype.sort((a, b) => b.count - a.count): stable, descending
InsertByCount(sorted, x) ==
    IF sorted = <<>> THEN <<x>>
    ELSE IF x.count > Head(sorted).count THEN <<x>> \o sorted
    ELSE <<Head(sorted)>> \o InsertByCount(Tail(sorted), x)

RECURSIVE SortByCount(_)
SortByCount(s) == IF s = <<>> THEN <<>> ELSE InsertByCount(SortByCount(Front(s)), Last(s))

RECURSIVE SuspiciousLoop_Above(_, _)
\* SuspiciousLoop flagging only the counts above the threshold
SuspiciousLoop_Above(tree, threshold) ==
    IF tree = <<>> THEN <<>>
    ELSE LET e == Head(tree)
             rest == SuspiciousLoop_Above(Tail(tree), threshold)
         IN  IF e.dir = <<".">> THEN rest
             ELSE IF Len(e.files) > threshold
                  THEN <<[dir |-> e.dir, count |-> Len(e.files)]>> \o rest
                  ELSE rest

RECURSIVE SuspiciousLoop(_, _)
\* the loop over the entries of the Directory Tree
SuspiciousLoop(tree, threshold) ==
    IF tree = <<>> THEN <<>>
    ELSE LET e == Head(tree)
             rest == SuspiciousLoop(Tail(tree), threshold)
         IN  IF e.dir = <<".">> THEN rest
             ELSE IF Len(e.files) >= threshold
                  THEN <<[dir |-> e.dir, count |-> Len(e.files)]>> \o rest
                  ELSE rest

\* detectSuspiciousDirs(directoryTree, threshold = 50); arg.given is FALSE when the
\* caller omits the threshold
detectSuspiciousDirs(directoryTree, arg) ==
    LET threshold == IF arg.given THEN arg.value ELSE DefaultThreshold
    IN  SortByCount(SuspiciousLoop(directoryTree, threshold))

----------------------------------------------------------------------------
(* filterScanResults *)

\* isExcluded without the test for a path nested under d
isExcluded_ExactOnly(relPath, excludeDirs) ==
    \E i \in 1..Len(excludeDirs) : relPath = excludeDirs[i]

\* String.prototype.startsWith on the characters of two strings
startsWith(str, search) ==
    Len(str) >= Len(search) /\ SubSeq(str, 1, Len(search)) = search

\* isExcluded testing relPath.startsWith(d), without the separator
isExcluded_NoSeparator(relPath, excludeDirs) ==
    \E i \in 1..Len(excludeDirs) :
        LET d == excludeDirs[i]
        IN  \/ relPath = d
            \/ startsWith(PathChars(relPath), PathChars(d))

\* relPath === d || relPath.startsWith(d + path.sep), for some d of excludeDirs
isExcluded(relPath, excludeDirs) ==
    \E i \in 1..Len(excludeDirs) :
        LET d == excludeDirs[i]
        IN  \/ relPath = d
            \/ startsWith(PathChars(relPath), PathChars(d) \o <<"/">>)

RECURSIVE FilterTree(_, _)
FilterTree(tree, excludeDirs) ==
    IF tree = <<>> THEN <<>>
    ELSE (IF Head(tree).dir # <<".">> /\ isExcluded(Head(tree).dir, excludeDirs)
          THEN <<>> ELSE <<Head(tree)>>) \o FilterTree(Tail(tree), excludeDirs)

\* scan.sourceFiles.filter((f) => !isExcluded(path.relative(baseDir, f)))
FilterFiles(files, excludeDirs) ==
    SelectSeq(files, LAMBDA f : ~isExcluded(Relative(BaseAbs, f), excludeDirs))

RECURSIVE FilterDeps_PrunesTargets(_, _)
\* the record filter that also drops, from the records it keeps, the targets
\* that lie under an excluded directory
FilterDeps_PrunesTargets(deps, excludeDirs) ==
    IF deps = <<>> THEN <<>>
    ELSE (IF isExcluded(Head(deps).file, excludeDirs)
          THEN <<>>
          ELSE <<[Head(deps) EXCEPT !.internal =
                     SelectSeq(@, LAMBDA t : ~isExcluded(t, excludeDirs))]>>)
         \o FilterDeps_PrunesTargets(Tail(deps), excludeDirs)

RECURSIVE FilterDeps(_, _)
FilterDeps(deps, excludeDirs) ==
    IF deps = <<>> THEN <<>>
    ELSE (IF isExcluded(Head(deps).file, excludeDirs)
          THEN <<>> ELSE <<Head(deps)>>) \o FilterDeps(Tail(deps), excludeDirs)

RECURSIVE AddPkgs(_, _, _)
AddPkgs(ext, pkgs, dir) ==
    IF pkgs = <<>> THEN ext ELSE AddPkgs(ExtAdd(ext, Head(pkgs), dir), Tail(pkgs), dir)

RECURSIVE RebuildExternal(_, _)
RebuildExternal(ext, deps) ==
    IF deps = <<>> THEN ext
    ELSE RebuildExternal(AddPkgs(ext, Head(deps).external, TopDir(Head(deps).file)), Tail(deps))

\* filterScanResults building a new object for the empty exclude list too
filterScanResults_AlwaysCopy(objects, ref, excludeDirs) ==
    LET old == objects[ref]
        fileDependencies == FilterDeps(old.fileDependencies, excludeDirs)
        new == [directoryTree |-> FilterTree(old.directoryTree, excludeDirs),
                sourceFiles |-> FilterFiles(old.sourceFiles, excludeDirs),
                fileDependencies |-> fileDependencies,
                externalDeps |-> RebuildExternal(<<>>, fileDependencies)]
    IN  [heap |-> Append(objects, new), ref |-> Len(objects) + 1]

\* filterScanResults writing the filtered fields into the scan object it was given
filterScanResults_InPlace(objects, ref, excludeDirs) ==
    LET old == objects[ref]
        fileDependencies == FilterDeps(old.fileDependencies, excludeDirs)
        new == [directoryTree |-> FilterTree(old.directoryTree, excludeDirs),
                sourceFiles |-> FilterFiles(old.sourceFiles, excludeDirs),
                fileDependencies |-> fileDependencies,
                externalDeps |-> RebuildExternal(<<>>, fileDependencies)]
    IN  [heap |-> [objects EXCEPT ![ref] = new], ref |-> ref]

\* filterScanResults(scan, excludeDirs, baseDir) on the object store: the store
\* after the call and the reference returned
filterScanResults(objects, ref, excludeDirs) ==
    LET old == objects[ref]
        fileDependencies == FilterDeps(old.fileDependencies, excludeDirs)
        new == [directoryTree |-> FilterTree(old.directoryTree, excludeDirs),
                sourceFiles |-> FilterFiles(old.sourceFiles, excludeDirs),
                fileDependencies |-> fileDependencies,
                externalDeps |-> RebuildExternal(<<>>, fileDependencies)]
    IN  IF Len(excludeDirs) = 0
        THEN [heap |-> objects, ref |-> ref]
        ELSE [heap |-> Append(objects, new), ref |-> Len(objects) + 1]

----------------------------------------------------------------------------
(* formatInterview *)

RECURSIVE AddUnique(_, _)
\* Set.add for each member of a sequence, keeping insertion order
AddUnique(s, xs) ==
    IF xs = <<>> THEN s
    ELSE AddUnique(IF Includes(s, Head(xs)) THEN s ELSE Append(s, Head(xs)), Tail(xs))

RECURSIVE AllDirPaths(_, _)
\* every directory key and every ancestor of it
AllDirPaths(acc, tree) ==
    IF tree = <<>> THEN acc
    ELSE LET dir == Head(tree).dir
         IN  IF dir = <<".">> THEN AllDirPaths(acc, Tail(tree))
             ELSE AllDirPaths(AddUnique(acc, [i \in 1..Len(dir) |-> SubSeq(dir, 1, i)]), Tail(tree))

TreeHas(tree, dir) == \E i \in 1..Len(tree) : tree[i].dir = dir

TreeGet(tree, dir) == tree[CHOOSE i \in 1..Len(tree) : tree[i].dir = dir].files

\* the lines of the Directory Tree section: the root line, then one line per
\* directory path in sorted order, each with its direct file count
TreeLines(scanObj) ==
    LET sorted == SortPaths(AllDirPaths(<<>>, scanObj.directoryTree), TRUE)
    IN  (IF TreeHas(scanObj.directoryTree, <<".">>)
         THEN <<[dir |-> <<".">>, count |-> Len(TreeGet(scanObj.directoryTree, <<".">>))]>>
         ELSE <<>>)
        \o [i \in 1..Len(sorted) |->
              [dir |-> sorted[i],
               count |-> IF TreeHas(scanObj.directoryTree, sorted[i])
                         THEN Len(TreeGet(scanObj.directoryTree, sorted[i])) ELSE 0]]

RECURSIVE DepDirs(_, _)
\* the keys of filesByDir, in insertion order
DepDirs(acc, deps) ==
    IF deps = <<>> THEN acc
    ELSE DepDirs(AddUnique(acc, <<Dirname(Head(deps).file)>>), Tail(deps))

RECURSIVE DepsOfDir(_, _)
DepsOfDir(deps, dir) ==
    IF deps = <<>> THEN <<>>
    ELSE (IF Dirname(Head(deps).file) = dir THEN <<Head(deps)>> ELSE <<>>) \o DepsOfDir(Tail(deps), dir)

RECURSIVE InsertDep(_, _)
InsertDep(sorted, x) ==
    IF sorted = <<>> THEN <<x>>
    ELSE IF LocaleLess(x.file, Head(sorted).file) THEN <<x>> \o sorted
    ELSE <<Head(sorted)>> \o InsertDep(Tail(sorted), x)

RECURSIVE SortDeps(_)
SortDeps(s) == IF s = <<>> THEN <<>> ELSE InsertDep(SortDeps(Front(s)), Last(s))

RECURSIVE DepMapOf(_, _)
DepMapOf(dirs, deps) ==
    IF dirs = <<>> THEN <<>>
    ELSE SortDeps(DepsOfDir(deps, Head(dirs))) \o DepMapOf(Tail(dirs), deps)

\* the entries of the Dependency Map section: directories with the root first and
\* the rest by localeCompare, files by localeCompare within a directory
DepMapLines(scanObj) ==
    LET dirs == DepDirs(<<>>, scanObj.fileDependencies)
        rest == SortPaths(Filter(dirs, Range(dirs) \ {<<".">>}), FALSE)
        sortedDepDirs == (IF Includes(dirs, <<".">>) THEN <<<<".">>>> ELSE <<>>) \o rest
    IN  DepMapOf(sortedDepDirs, scanObj.fileDependencies)

\* dirDependencies.get(sourceDir).add(targetDir), creating the set when needed
DirAdd(graph, sourceDir, targetDir) ==
    IF \E i \in 1..Len(graph) : graph[i].dir = sourceDir
    THEN [i \in 1..Len(graph) |->
            IF graph[i].dir = sourceDir /\ ~Includes(graph[i].targets, targetDir)
            THEN [dir |-> sourceDir, targets |-> Append(graph[i].targets, targetDir)]
            ELSE graph[i]]
    ELSE Append(graph, [dir |-> sourceDir, targets |-> <<targetDir>>])

RECURSIVE DirEdges(_, _, _)
DirEdges(graph, sourceDir, internal) ==
    IF internal = <<>> THEN graph
    ELSE LET targetDir == TopDir(Head(internal))
         IN  DirEdges(IF targetDir # sourceDir THEN DirAdd(graph, sourceDir, targetDir) ELSE graph,
                      sourceDir, Tail(internal))

RECURSIVE DirDependencies(_, _)
\* the directory-level cross-dependencies computed from the file-level data
DirDependencies(graph, deps) ==
    IF deps = <<>> THEN graph
    ELSE DirDependencies(DirEdges(graph, TopDir(Head(deps).file), Head(deps).internal), Tail(deps))

HasEdge(graph, a, b) ==
    \E i \in 1..Len(graph) : graph[i].dir = a /\ Includes(graph[i].targets, b)

RECURSIVE MutualOfTargets_BothOrders(_, _, _)
\* MutualOfTargets without the test that the source sorts before the target
MutualOfTargets_BothOrders(graph, sourceDir, targets) ==
    IF targets = <<>> THEN <<>>
    ELSE (IF HasEdge(graph, Head(targets), sourceDir)
          THEN <<<<sourceDir, Head(targets)>>>> ELSE <<>>)
         \o MutualOfTargets_BothOrders(graph, sourceDir, Tail(targets))

RECURSIVE MutualOfTargets(_, _, _)
\* the loop over the targets of one source directory: a pair is pushed when the
\* reverse edge exists and the source sorts before the target
MutualOfTargets(graph, sourceDir, targets) ==
    IF targets = <<>> THEN <<>>
    ELSE (IF HasEdge(graph, Head(targets), sourceDir) /\ StrLess(<<sourceDir>>, <<Head(targets)>>)
          THEN <<<<sourceDir, Head(targets)>>>> ELSE <<>>)
         \o MutualOfTargets(graph, sourceDir, Tail(targets))

RECURSIVE MutualLoop(_, _)
MutualLoop(graph, entries) ==
    IF entries = <<>> THEN <<>>
    ELSE MutualOfTargets(graph, Head(entries).dir, Head(entries).targets)
         \o MutualLoop(graph, Tail(entries))

\* the mutual dependencies (bidirectional coupling) of a directory graph
Mutual(graph) == MutualLoop(graph, graph)

RECURSIVE Islands(_, _)
\* the top-level directories with no edge out and no edge in
Islands(tree, graph) ==
    IF tree = <<>> THEN <<>>
    ELSE LET d == Head(tree).dir
             isolated == /\ d # <<".">>
                         /\ Len(d) = 1
                         /\ ~\E i \in 1..Len(graph) : graph[i].dir = d[1] /\ graph[i].targets # <<>>
                         /\ ~\E i \in 1..Len(graph) : Includes(graph[i].targets, d[1])
         IN  (IF isolated THEN <<d[1]>> ELSE <<>>) \o Islands(Tail(tree), graph)

\* formatInterview(scan, baseDir, {excludedDirs}): the report, section by section
formatInterview(scanObj, excludedDirs) ==
    LET graph == DirDependencies(<<>>, scanObj.fileDependencies)
    IN  [excluded |-> excludedDirs,
         graph    |-> graph,
         tree     |-> TreeLines(scanObj),
         total    |-> Len(scanObj.sourceFiles),
         depMap   |-> DepMapLines(scanObj),
         mutual   |-> Mutual(graph),
         islands  |-> Islands(scanObj.directoryTree, graph)]


----------------------------------------------------------------------------
(* formatPaginatedInterview: the paginated walkthrough. Page 1 is the        *)
(* overview, each later page is one directory of the Directory Tree.         *)

NoPaged == [kind |-> "none", page |-> 0, total |-> 0, dir |-> <<>>, tree |-> <<>>]

\* PageDirs with the root after the other directories
PageDirs_RootLast(scanObj) ==
    LET keys == [i \in 1..Len(scanObj.directoryTree) |-> scanObj.directoryTree[i].dir]
    IN  SortPaths(SelectSeq(keys, LAMBDA k : k # <<".">>), TRUE)
        \o (IF Includes(keys, <<".">>) THEN <<<<".">>>> ELSE <<>>)

\* the directories of the pages 2, 3, ..: the root first, then the other keys of
\* the Directory Tree in lexicographic order
PageDirs(scanObj) ==
    LET keys == [i \in 1..Len(scanObj.directoryTree) |-> scanObj.directoryTree[i].dir]
    IN  (IF Includes(keys, <<".">>) THEN <<<<".">>>> ELSE <<>>)
        \o SortPaths(SelectSeq(keys, LAMBDA k : k # <<".">>), TRUE)

\* formatPaginatedInterview(scan, baseDir, page, {excludedDirs}): which page is
\* rendered, out of how many
formatPaginatedInterview(scanObj, page) ==
    LET dirs  == PageDirs(scanObj)
        total == 1 + Len(dirs)
    IN  IF page < 1 \/ page > total
        THEN [NoPaged EXCEPT !.kind = "outOfRange", !.page = page, !.total = total]
        ELSE IF page = 1
        THEN [NoPaged EXCEPT !.kind = "overview", !.page = page, !.total = total,
                             !.tree = TreeLines(scanObj)]
        ELSE [NoPaged EXCEPT !.kind = "directory", !.page = page, !.total = total,
                             !.dir = dirs[page - 1]]

----------------------------------------------------------------------------
(* The rule check: resolveGlobs, checkFile, runRules and the exit code of    *)
(* main. A file is a sequence of lines, a line a sequence of words.          *)

\* the globs of the rules
Globs == {"**", "**/*.ts", "a/**"}

\* minimatch(rel, pattern, {dot: true}) for the globs of the rules
minimatch(rel, pattern) ==
    CASE pattern = "**"      -> TRUE
      [] pattern = "**/*.ts" -> ExtName(Basename(rel)) = ".ts"
      [] pattern = "a/**"    -> Len(rel) >= 2 /\ Head(rel) = "a"
      [] OTHER               -> FALSE

\* line.match(new RegExp(pattern)) for a pattern that is a literal word
RegexMatches(line, pattern) == pattern \in Range(line)

\* resolveGlobs(patterns, baseDir, skipDirs): the walked files that match one of
\* the patterns, each once, sorted
resolveGlobs(patterns, skipDirs, disk) ==
    LET allFiles == walkDir(BaseAbs, skipDirs, {BaseAbs \o f : f \in disk})
        matched == {f \in Range(allFiles) :
                      \E i \in 1..Len(patterns) : minimatch(Relative(BaseAbs, f), patterns[i])}
    IN  SortPaths(SelectSeq(allFiles, LAMBDA f : f \in matched), TRUE)

\* the inner loop of checkFile: the lines that match one pattern, in order
LineViolations(file, lines, pattern) ==
    LET hits == SelectSeq([i \in 1..Len(lines) |-> i], LAMBDA i : RegexMatches(lines[i], pattern))
    IN  [k \in 1..Len(hits) |-> [file |-> file, line |-> hits[k], match |-> lines[hits[k]],
                                 pattern |-> pattern]]

RECURSIVE checkFileLoop(_, _, _)
checkFileLoop(file, lines, denyPatterns) ==
    IF denyPatterns = <<>> THEN <<>>
    ELSE LineViolations(file, lines, Head(denyPatterns))
         \o checkFileLoop(file, lines, Tail(denyPatterns))

\* checkFile(filePath, denyPatterns)
checkFile(file, denyPatterns, content) ==
    checkFileLoop(file, content[Relative(BaseAbs, file)], denyPatterns)

RECURSIVE FileResults(_, _, _)
\* the loop of runRules over the files of a rule
FileResults(files, denyPatterns, content) ==
    IF files = <<>> THEN [all |-> <<>>, files |-> <<>>]
    ELSE LET violations == checkFile(Head(files), denyPatterns, content)
             rest == FileResults(Tail(files), denyPatterns, content)
         IN  [all   |-> violations \o rest.all,
              files |-> <<[file |-> Head(files), passed |-> violations = <<>>,
                           violations |-> violations]>> \o rest.files]

\* the body of the loop of runRules for one rule
RuleResult(rule, skipDirs, disk, content) ==
    LET resolved == resolveGlobs(rule.files, skipDirs, disk)
        files == IF Len(rule.exclude) > 0
                 THEN SelectSeq(resolved, LAMBDA f :
                        ~\E i \in 1..Len(rule.exclude) : minimatch(Relative(BaseAbs, f), rule.exclude[i]))
                 ELSE resolved
        r == FileResults(files, rule.deny, content)
    IN  [passed |-> r.all = <<>>, violations |-> r.all, files |-> r.files]

\* runRules(rules, baseDir, {skipDirs})
runRules(rules, skipDirs, disk, content) ==
    [i \in 1..Len(rules) |-> RuleResult(rules[i], skipDirs, disk, content)]

\* main: the exit code of a rule check whose rule file parsed. An exception of
\* the walk is not caught: the process ends with code 1
ExitCode(threw, results) ==
    IF threw THEN 1
    ELSE IF \E i \in 1..Len(results) : ~results[i].passed THEN 1
    ELSE 0

----------------------------------------------------------------------------
(* The skip directories of a run: parseFlags, runInterview and main          *)

\* an optional list of directory names of the command line or of a config file
NoNames == [given |-> FALSE, value |-> {}]

Names(S) == [given |-> TRUE, value |-> S]

\* parseFlags with every --skip value replacing the skip set
ParseSkipLoop_Replace(skipDirs, skipArgs) ==
    IF skipArgs = <<>> THEN skipDirs ELSE Names(Last(skipArgs))

RECURSIVE ParseSkipLoop(_, _)
\* the loop of parseFlags over the arguments, for the --skip flags: skipArgs are
\* their values in order, each the set of the comma-separated, trimmed names
ParseSkipLoop(skipDirs, skipArgs) ==
    IF skipArgs = <<>> THEN skipDirs
    ELSE ParseSkipLoop(Names(DEFAULT_SKIP_DIRS \cup Head(skipArgs)), Tail(skipArgs))

\* parseFlags(args): the skip part of the flags
parseFlags(skipArgs) ==
    LET skipDirs == ParseSkipLoop(NoNames, skipArgs)
    IN  [skipDirs    |-> IF skipDirs.given THEN skipDirs.value ELSE DEFAULT_SKIP_DIRS,
         skipFromCli |-> skipDirs.given]

\* the config of a run: none was found, or one with an optional scan section
\* (with an optional skip-dirs list) and an optional top-level skip list
NoConfig == [null |-> TRUE, scan |-> [null |-> TRUE, skipDirs |-> NoNames], skip |-> NoNames]

\* runInterview: the effective skip dirs
InterviewSkipDirs(flags, config) ==
    IF flags.skipFromCli THEN flags.skipDirs
    ELSE IF ~config.null /\ ~config.scan.null /\ config.scan.skipDirs.given
    THEN DEFAULT_SKIP_DIRS \cup config.scan.skipDirs.value
    ELSE IF ~config.null /\ config.skip.given
    THEN DEFAULT_SKIP_DIRS \cup config.skip.value
    ELSE flags.skipDirs

\* main: the skip dirs of a rule check, whose config is the parsed rule file
MainSkipDirs(flags, config) ==
    IF ~flags.skipFromCli /\ config.skip.given
    THEN DEFAULT_SKIP_DIRS \cup config.skip.value
    ELSE flags.skipDirs

----------------------------------------------------------------------------
(* loadScanConfig: the cascading lookup of .archtest.yml. The directories    *)
(* are absolute paths, <<>> being the filesystem root.                       *)

\* the documents of a .archtest.yml: one with a rules array, one that parses
\* without a rules array, one that is not YAML
ValidDoc == [yaml |-> TRUE, rulesIsArray |-> TRUE]

NoRulesDoc == [yaml |-> TRUE, rulesIsArray |-> FALSE]

BrokenDoc == [yaml |-> FALSE, rulesIsArray |-> FALSE]

\* fs.existsSync(path)
existsSync(p, disk) == p \in disk \/ IsDirectory(p, disk)

\* parseRuleFile(filePath) throws: yaml.load fails or there is no rules array
parseRuleFileThrows(doc) == ~doc.yaml \/ ~doc.rulesIsArray

\* path.dirname of an absolute directory: the root is its own parent
ParentDir(d) == IF d = <<>> THEN <<>> ELSE Front(d)

RECURSIVE findRepoRoot(_, _)
\* the nearest directory from dir upward, the filesystem root apart, with a .git
findRepoRoot(current, disk) ==
    IF current = <<>> THEN Null
    ELSE IF existsSync(current \o <<".git">>, disk) THEN Just(current)
    ELSE findRepoRoot(ParentDir(current), disk)

NoLoaded == [null |-> TRUE, configDir |-> <<>>]

\* the candidates with the farthest directory first
Candidates_FarthestFirst(current, stopAt) ==
    [i \in 1..(Len(current) - Len(stopAt) + 1) |-> SubSeq(current, 1, Len(stopAt) + i - 1)]

RECURSIVE Candidates(_, _)
\* the loop that builds the candidates: baseDir, then its parents up to stopAt
Candidates(current, stopAt) ==
    IF current = stopAt \/ ParentDir(current) = current THEN <<current>>
    ELSE <<current>> \o Candidates(ParentDir(current), stopAt)

RECURSIVE FirstConfig(_, _, _)
\* the loop over the candidates: the first whose .archtest.yml exists and parses
FirstConfig(candidates, disk, content) ==
    IF candidates = <<>> THEN NoLoaded
    ELSE LET dir == Head(candidates)
             configPath == dir \o <<".archtest.yml">>
         IN  IF ~existsSync(configPath, disk) THEN FirstConfig(Tail(candidates), disk, content)
             ELSE IF configPath \notin disk \/ parseRuleFileThrows(content[configPath])
             THEN FirstConfig(Tail(candidates), disk, content)
             ELSE [null |-> FALSE, configDir |-> dir]

\* loadScanConfig(baseDir), run in the working directory cwd
loadScanConfig(baseDir, cwd, disk, content) ==
    LET repoRoot == findRepoRoot(baseDir, disk)
        stopAt == IF repoRoot.null THEN <<>> ELSE repoRoot.path
        chain == Candidates(baseDir, stopAt)
        candidates == IF Includes(chain, cwd) THEN chain ELSE Append(chain, cwd)
    IN  FirstConfig(candidates, disk, content)

----------------------------------------------------------------------------
(* The object store after a call that reads a scan result *)

\* a reader that sorts the Source File list of the scan in place, last file first
AfterReading_ReordersFiles(objects, ref) ==
    [objects EXCEPT ![ref].sourceFiles =
        [i \in 1..Len(@) |-> @[Len(@) + 1 - i]]]

\* detectSuspiciousDirs and the renderers write to arrays, maps and sets that they
\* build themselves (suspicious, lines, allDirPaths, filesByDir, dirDependencies)
\* and only read the scan result: the store is as it was
AfterReading(objects, ref) == objects

----------------------------------------------------------------------------
(* The state machine *)

NoReport == [excluded |-> <<>>, graph |-> <<>>, tree |-> <<>>, total |-> 0, depMap |-> <<>>,
             mutual |-> <<>>, islands |-> <<>>]

NoCall == [op |-> "none", ref |-> 0, threshold |-> [given |-> FALSE, value |-> 0],
           suspicious |-> <<>>,
           excludeDirs |-> <<>>, before |-> EmptyScan, result |-> 0, out |-> NoReport,
           aliases |-> <<>>, token |-> <<>>, resolved |-> NoResolution,
           full |-> FALSE, pageFlag |-> [given |-> FALSE, value |-> 0], page |-> 0,
           paged |-> NoPaged, walked |-> <<>>, threw |-> FALSE,
           mode |-> "none", skipArgs |-> <<>>, config |-> NoConfig,
           baseDir |-> <<>>, cwd |-> <<>>, loaded |-> NoLoaded,
           rules |-> <<>>, results |-> <<>>, exit |-> 0,
           file |-> <<>>, k |-> 0, pc |-> "none", regex |-> NoRegex, match |-> NoMatch,
           imports |-> <<>>]

\* the directories a caller may name in an exclude list
ExcludeUniverse ==
    {<<".">>, <<"a">>, <<"b">>, <<"a", "util">>, <<"a", "m.ts">>, <<"vendor">>, <<"vendor2">>}

ExcludeLists == UNION {[1..n -> ExcludeUniverse] : n \in 0..MaxExclude}

\* the mappings a configuration may hold: '@/' to the root, '@/components/' to
\* lib/, '~/' to the parent of the Base Directory
AliasUniverse ==
    {[prefix |-> <<"@">>, target |-> <<>>],
     [prefix |-> <<"@", "components">>, target |-> <<"lib">>],
     [prefix |-> <<"~">>, target |-> <<"..">>]}

\* the Alias Maps: mappings of distinct prefixes, in every configured order
AliasMaps ==
    UNION {{m \in [1..n -> AliasUniverse] : \A i, j \in 1..n : i # j => m[i].prefix # m[j].prefix} :
           n \in 0..MaxAliases}

\* '@/components/Button', '@/components/', '@/components', '@/util', '~/m', 'lodash',
\* '@/', '~/'
AliasTokens ==
    {<<"@", "components", "Button">>, <<"@", "components", "">>, <<"@", "components">>,
     <<"@", "util">>, <<"~", "m">>, <<"lodash">>, <<"@", "">>, <<"~", "">>}

\* the page numbers a caller may ask for
PageNumbers == (0 - 1)..MaxPage

\* the --page flag: given = FALSE when the flag is not on the command line
PageFlags ==
    {[given |-> FALSE, value |-> 0]} \cup {[given |-> TRUE, value |-> v] : v \in PageNumbers}

\* the thresholds a caller may pass; given = FALSE is the omitted argument
ThresholdArgs ==
    {[given |-> FALSE, value |-> 0]} \cup {[given |-> TRUE, value |-> v] : v \in 1..MaxSmallCount}

\* the names a user may add to the skip directories
UserSkipNames == {{}, {"a"}, {"vendor", "dist"}}

\* the values of the --skip flags of a command line
SkipArgLists == {<<>>} \cup {<<S>> : S \in UserSkipNames} \cup {<<{"a"}, {"vendor"}>>}

UserSkipLists == {NoNames} \cup {Names(S) : S \in UserSkipNames}

\* the configs a run may find
RunConfigs ==
    {NoConfig}
    \cup {[null |-> FALSE, scan |-> [null |-> TRUE, skipDirs |-> NoNames], skip |-> k] : k \in UserSkipLists}
    \cup {[null |-> FALSE, scan |-> [null |-> FALSE, skipDirs |-> s], skip |-> k] :
            s \in UserSkipLists, k \in UserSkipLists}

\* the start of a run of the command line, up to the skip directories that the
\* walk of the run is given: a rule check reads them from the parsed rule file,
\* the interview from the config it found, if any
ResolveSkipDirs ==
    /\ scan = 0
    /\ \E mode \in {"check", "interview"}, skipArgs \in SkipArgLists, config \in RunConfigs :
          /\ mode = "check" => ~config.null
          /\ LET flags == parseFlags(skipArgs)
                 effective == IF mode = "interview" THEN InterviewSkipDirs(flags, config)
                              ELSE MainSkipDirs(flags, config)
             IN  /\ cfg' = [cfg EXCEPT !.skipDirs = effective]
                 /\ call' = [NoCall EXCEPT !.op = "skip", !.mode = mode, !.skipArgs = skipArgs,
                                           !.config = config]
    /\ UNCHANGED <<fsys, unreadable, text, heap, scan, resolveLog>>

\* the directories of the config worlds: a repository with a package and its
\* source directory, and a directory outside of it
CascadeDirs == {<<>>, <<"repo">>, <<"repo", "pkg">>, <<"repo", "pkg", "src">>, <<"tmp">>}

\* loadScanConfig(baseDir) of a process whose working directory is cwd
LoadScanConfig ==
    /\ \E baseDir \in CascadeDirs, cwd \in {<<"tmp">>, <<"repo">>, <<"repo", "pkg", "src">>} :
          call' = [NoCall EXCEPT !.op = "config", !.baseDir = baseDir, !.cwd = cwd,
                                 !.loaded = loadScanConfig(baseDir, cwd, fsys, text)]
    /\ UNCHANGED <<fsys, unreadable, text, cfg, heap, scan, resolveLog>>

\* the rules of a rule file: scope.files, scope.exclude and deny.patterns
Rules ==
    [files   : {<<"**">>, <<"a/**", "**/*.ts">>},
     exclude : {<<>>, <<"a/**">>},
     deny    : {<<"fetch">>, <<"console", "fetch">>}]

RuleLists ==
    {<<>>} \cup {<<r>> : r \in Rules}
    \cup {<<r, [files |-> <<"**/*.ts">>, exclude |-> <<>>, deny |-> <<"console">>]>> : r \in Rules}

\* main: a rule check with a rule file that parsed, with the skip directories
\* of the run. resolveGlobs walks the tree once for every rule.
RunRules ==
    /\ \E rules \in RuleLists :
          LET threw == Len(rules) > 0 /\ walkDirThrows(<<>>, cfg.skipDirs, fsys, unreadable)
              results == IF threw THEN <<>> ELSE runRules(rules, cfg.skipDirs, fsys, text)
          IN  call' = [NoCall EXCEPT !.op = "check", !.rules = rules, !.threw = threw,
                                     !.results = results, !.exit = ExitCode(threw, results)]
    /\ UNCHANGED <<fsys, unreadable, text, cfg, heap, scan, resolveLog>>

\* extractImports(filePath, importPatterns) is called on a file, while no other
\* call of it runs
ExtractImportsCall ==
    /\ call.op # "extract"
    /\ \E f \in fsys :
          call' = [NoCall EXCEPT !.op = "extract", !.file = f, !.k = 1, !.pc = "for"]
    /\ UNCHANGED <<fsys, unreadable, text, cfg, heap, scan, resolveLog>>

\* the head of for (const pattern of patterns): the pattern is cloned, or the
\* imports are returned after the last pattern
ExtractImportsFor ==
    /\ call.op = "extract" /\ call.pc = "for"
    /\ call' = IF call.k > Len(cfg.importPatterns)
               THEN [call EXCEPT !.op = "extracted", !.pc = "none", !.regex = NoRegex,
                                 !.match = NoMatch]
               ELSE [call EXCEPT !.regex = CloneRegex(cfg.importPatterns[call.k]), !.pc = "while"]
    /\ UNCHANGED <<fsys, unreadable, text, cfg, heap, scan, resolveLog>>

\* the test of while ((match = regex.exec(content)) !== null); exec writes the
\* lastIndex of the object it is called on
ExtractImportsExec ==
    /\ call.op = "extract" /\ call.pc = "while"
    /\ LET m == exec(call.regex, text[call.file])
           regex == [call.regex EXCEPT !.lastIndex = m.lastIndex]
       IN  /\ call' = IF m.null
                      THEN [call EXCEPT !.regex = regex, !.match = m, !.k = @ + 1, !.pc = "for"]
                      ELSE [call EXCEPT !.regex = regex, !.match = m, !.pc = "body"]
           /\ cfg' = IF regex.shared
                     THEN [cfg EXCEPT !.importPatterns[call.k] = PatternOf(regex)]
                     ELSE cfg
    /\ UNCHANGED <<fsys, unreadable, text, heap, scan, resolveLog>>

\* the body of the while loop
ExtractImportsBody ==
    /\ call.op = "extract" /\ call.pc = "body"
    /\ call' = [call EXCEPT !.pc = "while",
                            !.imports = IF call.match.tok # <<>> /\ ~Includes(@, call.match.tok)
                                        THEN Append(@, call.match.tok) ELSE @]
    /\ UNCHANGED <<fsys, unreadable, text, cfg, heap, scan, resolveLog>>

\* scanCodebase(baseDir, options): one scan of the files on disk
ScanCodebase ==
    /\ scan = 0
    /\ IF walkDirThrows(<<>>, cfg.skipDirs, fsys, unreadable)
       THEN /\ call' = [NoCall EXCEPT !.op = "scan", !.threw = TRUE]
            /\ UNCHANGED <<heap, scan, resolveLog>>
       ELSE LET r == scanCodebase(fsys, text, cfg)
            IN  /\ heap' = Append(heap, r.result)
                /\ scan' = Len(heap) + 1
                /\ resolveLog' = r.log
                /\ call' = call
    /\ UNCHANGED <<fsys, unreadable, text, cfg>>

\* detectSuspiciousDirs(scan.directoryTree, threshold) on the scan result
DetectSuspiciousDirs ==
    /\ scan # 0
    /\ Len(heap) = 1
    /\ \E arg \in ThresholdArgs :
          /\ call' = [NoCall EXCEPT !.op = "detect", !.ref = scan, !.threshold = arg,
                                    !.suspicious = detectSuspiciousDirs(heap[scan].directoryTree, arg)]
          /\ heap' = AfterReading(heap, scan)
    /\ UNCHANGED <<fsys, unreadable, text, cfg, scan, resolveLog>>

\* filterScanResults(scan, excludeDirs, baseDir) on the scan result; before is the
\* content of the scan object when the call is made
FilterScanResults ==
    /\ scan # 0
    /\ Len(heap) = 1
    /\ \E excludeDirs \in ExcludeLists :
          LET r == filterScanResults(heap, scan, excludeDirs)
          IN  /\ heap' = r.heap
              /\ call' = [NoCall EXCEPT !.op = "filter", !.ref = scan, !.excludeDirs = excludeDirs,
                                         !.before = heap[scan], !.result = r.ref]
    /\ UNCHANGED <<fsys, unreadable, text, cfg, scan, resolveLog>>

\* the alias step of the resolver on one non-relative token, with the Source File
\* Set of the scan
ResolveAlias ==
    /\ scan # 0
    /\ Len(heap) = 1
    /\ \E aliases \in AliasMaps : \E token \in AliasTokens :
          call' = [NoCall EXCEPT !.op = "alias", !.ref = scan, !.aliases = aliases,
                                 !.token = token,
                                 !.resolved = resolveAlias(token, aliases, cfg.extensions,
                                                           {Relative(BaseAbs, f) : f \in Range(heap[scan].sourceFiles)})]
    /\ UNCHANGED <<fsys, unreadable, text, cfg, heap, scan, resolveLog>>

\* walkDir(baseDir, skipDirs) on the files on disk
WalkDir ==
    /\ call' = IF walkDirThrows(<<>>, cfg.skipDirs, fsys, unreadable)
               THEN [NoCall EXCEPT !.op = "walk", !.threw = TRUE]
               ELSE [NoCall EXCEPT !.op = "walk",
                                   !.walked = walkDir(BaseAbs, cfg.skipDirs, {BaseAbs \o f : f \in fsys})]
    /\ UNCHANGED <<fsys, unreadable, text, cfg, heap, scan, resolveLog>>

\* formatPaginatedInterview(scan, baseDir, page) on the scan result
FormatPaginatedInterview ==
    /\ scan # 0
    /\ Len(heap) = 1
    /\ \E page \in PageNumbers :
          /\ call' = [NoCall EXCEPT !.op = "page", !.ref = scan, !.page = page,
                                    !.paged = formatPaginatedInterview(heap[scan], page)]
          /\ heap' = AfterReading(heap, scan)
    /\ UNCHANGED <<fsys, unreadable, text, cfg, scan, resolveLog>>

\* runInterview after its scan: the automatic exclusion of the suspicious
\* directories unless --full, then the full report with --full and else the page
\* flags.page || 1 of the walkthrough
RunInterview ==
    /\ scan # 0
    /\ Len(heap) = 1
    /\ \E full \in BOOLEAN, pageFlag \in PageFlags :
          LET suspicious == IF full THEN <<>>
                            ELSE detectSuspiciousDirs(heap[scan].directoryTree,
                                                      [given |-> FALSE, value |-> 0])
              excludeDirs == [i \in 1..Len(suspicious) |-> suspicious[i].dir]
              r == IF Len(suspicious) > 0
                   THEN filterScanResults(heap, scan, excludeDirs)
                   ELSE [heap |-> heap, ref |-> scan]
              page == IF pageFlag.given /\ pageFlag.value # 0 THEN pageFlag.value ELSE 1
          IN  /\ heap' = r.heap
              /\ call' = [NoCall EXCEPT
                            !.op = "interview", !.ref = scan, !.full = full,
                            !.pageFlag = pageFlag, !.before = heap[scan],
                            !.suspicious = suspicious, !.excludeDirs = excludeDirs,
                            !.result = r.ref,
                            !.page = IF full THEN 0 ELSE page,
                            !.out = IF full THEN formatInterview(r.heap[r.ref], suspicious)
                                    ELSE NoReport,
                            !.paged = IF full THEN NoPaged
                                      ELSE formatPaginatedInterview(r.heap[r.ref], page)]
    /\ UNCHANGED <<fsys, unreadable, text, cfg, scan, resolveLog>>

\* formatInterview(scan, baseDir) on a scan result or on a filtered one
FormatInterview ==
    /\ scan # 0
    /\ \E ref \in 1..Len(heap) :
          /\ call' = [NoCall EXCEPT !.op = "format", !.ref = ref,
                                    !.out = formatInterview(heap[ref], <<>>)]
          /\ heap' = AfterReading(heap, ref)
    /\ UNCHANGED <<fsys, unreadable, text, cfg, scan, resolveLog>>


----------------------------------------------------------------------------
(* Resolver worlds: one importing file with one import statement, in a tree *)
(* of a few other files                                                     *)

Importers == {<<"index.ts">>, <<"a", "index.ts">>, <<"..x", "m.ts">>}

FileUniverse ==
    Importers \cup
    {<<"util.ts">>, <<"a", "util.ts">>, <<"a", "util.js">>, <<"a", "util", "index.ts">>,
     <<"a", "util", "index.js">>, <<"b", "m.ts">>, <<"..x", "util.ts">>}

ResolveTokens ==
    {<<".", "util">>, <<".", "util.ts">>, <<"..", "util">>, <<"..">>, <<"..", "..">>,
     <<"..", "..x", "util">>, <<"..", "..", "proj", "a", "util">>, <<"..", "..", "other", "m">>,
     <<".", "b", "m">>, <<".env">>, <<"util">>, <<"lodash">>, <<"lodash", "fp">>,
     <<"@s", "pkg", "deep">>}

ExtLists == {<<".ts", ".js">>, <<".js", ".ts">>, <<".ts">>}

OtherSets == {S \in SUBSET FileUniverse : Cardinality(S) <= MaxOtherFiles}

\* a run starts with the files on disk and the options, and nothing scanned
StartWithUnreadable(files, dirs, content, options) ==
    /\ fsys = files
    /\ unreadable = dirs
    /\ text = content
    /\ cfg = options
    /\ heap = <<>>
    /\ scan = 0
    /\ resolveLog = <<>>
    /\ call = NoCall

\* a tree in which every directory can be listed
StartWith(files, content, options) == StartWithUnreadable(files, {}, content, options)

Init ==
    \E importer \in Importers, others \in OtherSets,
       tok \in ResolveTokens, exts \in ExtLists :
        /\ importer \notin others
        /\ StartWith(others \cup {importer},
                     [f \in others \cup {importer} |->
                        IF f = importer THEN <<[pat |-> "from", tok |-> tok]>> ELSE <<>>],
                     [extensions |-> exts, importPatterns |-> DEFAULT_IMPORT_PATTERNS,
                      skipDirs |-> DEFAULT_SKIP_DIRS])

Next == ScanCodebase \/ FormatInterview

Spec == Init /\ [][Next]_vars


----------------------------------------------------------------------------
(* Extraction worlds: one importing file with a few import statements,     *)
(* written for either of two patterns, and the patterns in either order    *)

ExtractFiles == {<<"index.ts">>, <<"a", "index.ts">>, <<"a", "util.ts">>}

ExtractImporter == <<"a", "index.ts">>

\* the statements a file may hold; an empty token is a match whose first group
\* captured nothing
Statements ==
    {[pat |-> "require", tok |-> <<".", "util">>],
     [pat |-> "from",    tok |-> <<".", "util.ts">>],
     [pat |-> "from",    tok |-> <<".", "util">>],
     [pat |-> "from",    tok |-> <<"lodash">>],
     [pat |-> "require", tok |-> <<"lodash", "fp">>],
     [pat |-> "from",    tok |-> <<>>]}

PatternLists == {<<"require", "from">>, <<"from", "require">>, <<"from">>}

Contents == UNION {[1..n -> Statements] : n \in 0..MaxStatements}

InitExtract ==
    \E content \in Contents, patterns \in PatternLists :
        StartWith(ExtractFiles,
                  [f \in ExtractFiles |-> IF f = ExtractImporter THEN content ELSE <<>>],
                  [extensions |-> <<".ts", ".js">>, importPatterns |-> patterns,
                   skipDirs |-> DEFAULT_SKIP_DIRS])

SpecExtract == InitExtract /\ [][Next]_vars

----------------------------------------------------------------------------
(* Graph worlds: three files in the root and two directories, importing    *)
(* each other                                                              *)

GraphFiles == {<<"index.ts">>, <<"a", "m.ts">>, <<"b", "m.ts">>}

GraphTokens ==
    {<<"..", "a", "m">>, <<"..", "b", "m">>, <<"..", "index">>, <<".", "a", "m">>, <<".", "b", "m">>}

ImportSets == {W \in SUBSET (GraphFiles \X GraphTokens) : Cardinality(W) <= MaxGraphImports}

InitGraph ==
    \E W \in ImportSets :
        StartWith(GraphFiles,
                  [f \in GraphFiles |->
                     [i \in 1..Cardinality({t \in GraphTokens : <<f, t>> \in W}) |->
                        [pat |-> "from",
                         tok |-> SetToSeq({t \in GraphTokens : <<f, t>> \in W})[i]]]],
                  [extensions |-> <<".ts">>, importPatterns |-> DEFAULT_IMPORT_PATTERNS,
                   skipDirs |-> DEFAULT_SKIP_DIRS])

SpecGraph == InitGraph /\ [][Next]_vars

----------------------------------------------------------------------------
(* Detection worlds: the root, a directory and a directory nested in it,   *)
(* each with a small number of files or a number around the default        *)
(* threshold                                                               *)

DetectDirs == <<<<>>, <<"vendor">>, <<"vendor", "sub">>>>

CountChoices == (0..MaxSmallCount) \cup {DefaultThreshold - 1, DefaultThreshold, DefaultThreshold + 1}

FilesIn(dir, n) == {dir \o <<FileStem(i) \o ".js">> : i \in 1..n}

InitDetect ==
    \E n \in [1..Len(DetectDirs) -> CountChoices] :
        LET files == UNION {FilesIn(DetectDirs[k], n[k]) : k \in 1..Len(DetectDirs)}
        IN  StartWith(files, [f \in files |-> <<>>],
                      [extensions |-> <<".js">>, importPatterns |-> DEFAULT_IMPORT_PATTERNS,
                       skipDirs |-> DEFAULT_SKIP_DIRS])

NextDetect == ScanCodebase \/ DetectSuspiciousDirs

SpecDetect == InitDetect /\ [][NextDetect]_vars

----------------------------------------------------------------------------
(* Filter worlds: a tree of a few files in the root, two directories and a *)
(* nested one, each file with at most one import                            *)

FilterFileUniverse == {<<"index.ts">>, <<"a", "m.ts">>, <<"a", "util", "index.ts">>, <<"b", "m.ts">>}

FilterContents ==
    {<<>>, <<[pat |-> "from", tok |-> <<"lodash">>]>>, <<[pat |-> "from", tok |-> <<"..", "b", "m">>]>>}

InitFilter ==
    \E files \in (SUBSET FilterFileUniverse) \ {{}} :
        \E content \in [files -> FilterContents] :
            StartWith(files, content,
                      [extensions |-> <<".ts">>, importPatterns |-> DEFAULT_IMPORT_PATTERNS,
                       skipDirs |-> DEFAULT_SKIP_DIRS])

NextFilter == ScanCodebase \/ FilterScanResults

SpecFilter == InitFilter /\ [][NextFilter]_vars

----------------------------------------------------------------------------
(* Sibling worlds: a directory, a directory nested in it and a sibling whose *)
(* name starts with the directory's name                                     *)

SiblingFileUniverse ==
    {<<"index.ts">>, <<"vendor", "m.ts">>, <<"vendor", "sub", "m.ts">>, <<"vendor2", "m.ts">>}

SiblingContents ==
    {<<>>, <<[pat |-> "from", tok |-> <<"lodash">>]>>}

InitSibling ==
    \E files \in (SUBSET SiblingFileUniverse) \ {{}} :
        \E content \in [files -> SiblingContents] :
            StartWith(files, content,
                      [extensions |-> <<".ts">>, importPatterns |-> DEFAULT_IMPORT_PATTERNS,
                       skipDirs |-> {}])

SpecSibling == InitSibling /\ [][NextFilter]_vars

----------------------------------------------------------------------------
(* Alias worlds: a tree with files under lib/ and components/ *)

AliasFileUniverse ==
    {<<"lib", "Button.ts">>, <<"lib", "index.ts">>, <<"components", "Button.ts">>, <<"util.ts">>,
     <<"index.ts">>}

InitAlias ==
    \E files \in SUBSET AliasFileUniverse :
        StartWith(files, [f \in files |-> <<>>],
                  [extensions |-> <<".ts">>, importPatterns |-> DEFAULT_IMPORT_PATTERNS,
                   skipDirs |-> DEFAULT_SKIP_DIRS])

NextAlias == ScanCodebase \/ ResolveAlias

SpecAlias == InitAlias /\ [][NextAlias]_vars

----------------------------------------------------------------------------
(* Configuration worlds: a few files with an import each, scanned with      *)
(* extensions and import patterns that are passed, empty or not passed      *)

ConfigFiles == {<<"index.ts">>, <<"a", "index.ts">>, <<"a", "util.ts">>}

ConfigContents ==
    {<<>>, <<[pat |-> "from", tok |-> <<".", "util">>]>>, <<[pat |-> "require", tok |-> <<"lodash">>]>>}

ConfigExtensions == {Undefined, <<>>, <<".ts">>}

ConfigPatterns == {Undefined, <<>>, <<"from">>}

InitConfig ==
    \E files \in SUBSET ConfigFiles :
        \E content \in [files -> ConfigContents] :
            \E extensions \in ConfigExtensions, patterns \in ConfigPatterns :
                StartWith(files, content,
                          [extensions |-> extensions, importPatterns |-> patterns,
                           skipDirs |-> DEFAULT_SKIP_DIRS])

SpecConfig == InitConfig /\ [][Next]_vars

----------------------------------------------------------------------------
(* Page worlds: the trees of the filter worlds and the empty tree, walked   *)
(* through page by page                                                     *)

InitPages ==
    \E files \in SUBSET FilterFileUniverse :
        \E content \in [files -> FilterContents] :
            StartWith(files, content,
                      [extensions |-> <<".ts">>, importPatterns |-> DEFAULT_IMPORT_PATTERNS,
                       skipDirs |-> DEFAULT_SKIP_DIRS])

NextPages == ScanCodebase \/ FormatPaginatedInterview \/ RunInterview

SpecPages == InitPages /\ [][NextPages]_vars

----------------------------------------------------------------------------
(* Reader worlds: the trees of the page worlds, read by the detection and   *)
(* by both renderers in any order and any number of times                   *)

NextRender ==
    ScanCodebase \/ DetectSuspiciousDirs \/ FormatInterview \/ FormatPaginatedInterview

SpecRender == InitPages /\ [][NextRender]_vars

----------------------------------------------------------------------------
(* Interview worlds: the trees of the detection worlds, handed to           *)
(* runInterview                                                             *)

NextInterview == ScanCodebase \/ RunInterview

\* the file counts of the root, of vendor and of vendor/sub
InterviewCounts ==
    {n \in [1..Len(DetectDirs) -> CountChoices] :
        /\ n[1] \in {2, DefaultThreshold}
        /\ n[2] \in {0, DefaultThreshold - 1, DefaultThreshold, DefaultThreshold + 1}
        /\ n[3] \in {0, 1, DefaultThreshold}}

InitInterview ==
    \E n \in InterviewCounts :
        LET files == UNION {FilesIn(DetectDirs[k], n[k]) : k \in 1..Len(DetectDirs)}
        IN  StartWith(files, [f \in files |-> <<>>],
                      [extensions |-> <<".js">>, importPatterns |-> DEFAULT_IMPORT_PATTERNS,
                       skipDirs |-> DEFAULT_SKIP_DIRS])

SpecInterview == InitInterview /\ [][NextInterview]_vars

----------------------------------------------------------------------------
(* Walk worlds: files and directories some of which bear a name of the      *)
(* skip set, at the root and deeper                                         *)

WalkFileUniverse ==
    {<<"index.ts">>, <<"dist">>, <<"a", "m.ts">>, <<"a", "dist", "m.ts">>, <<"b", "a", "m.ts">>}

\* the skip sets: the default one, a directory name, a relative path, nothing
WalkSkipSets == {DEFAULT_SKIP_DIRS, {"a"}, {"a/dist"}, {}}

InitWalk ==
    \E files \in SUBSET WalkFileUniverse, skip \in WalkSkipSets :
        StartWith(files, [f \in files |-> <<>>],
                  [extensions |-> <<".ts">>, importPatterns |-> DEFAULT_IMPORT_PATTERNS,
                   skipDirs |-> skip])

NextWalk == ScanCodebase \/ WalkDir

SpecWalk == InitWalk /\ [][NextWalk]_vars

----------------------------------------------------------------------------
(* Failure worlds: the walk worlds with a directory that cannot be listed   *)

UnreadableDirs == {<<>>, <<"a">>, <<"a", "dist">>, <<"b", "a">>}

InitFail ==
    \E files \in SUBSET WalkFileUniverse, skip \in WalkSkipSets :
        \E dirs \in {{}} \cup {{d} : d \in UnreadableDirs} :
            StartWithUnreadable(files, dirs, [f \in files |-> <<>>],
                                [extensions |-> <<".ts">>, importPatterns |-> DEFAULT_IMPORT_PATTERNS,
                                 skipDirs |-> skip])

SpecFail == InitFail /\ [][NextWalk]_vars

----------------------------------------------------------------------------
(* Skip worlds: files in the root, in directories of default skip names, at *)
(* any depth, and in directories a user may name                             *)

SkipFileUniverse ==
    {<<"index.ts">>, <<"a", "m.ts">>, <<"dist", "m.ts">>, <<"a", "node_modules", "m.ts">>,
     <<"vendor", "m.ts">>}

InitSkip ==
    \E files \in SUBSET SkipFileUniverse :
        StartWith(files, [f \in files |-> <<>>],
                  [extensions |-> <<".ts">>, importPatterns |-> DEFAULT_IMPORT_PATTERNS,
                   skipDirs |-> DEFAULT_SKIP_DIRS])

NextSkip == ResolveSkipDirs \/ ScanCodebase \/ WalkDir

SpecSkip == InitSkip /\ [][NextSkip]_vars

----------------------------------------------------------------------------
(* Config worlds: in every directory no .archtest.yml or one of the three   *)
(* documents, and a .git in the repository, in its package, in both or in   *)
(* neither                                                                   *)

CascadeDocs == {ValidDoc, NoRulesDoc, BrokenDoc}

ConfigFile(d) == d \o <<".archtest.yml">>

InitCascade ==
    \E withConfig \in SUBSET CascadeDirs, withGit \in SUBSET {<<"repo">>, <<"repo", "pkg">>} :
        \E docs \in [withConfig -> CascadeDocs] :
            LET files == {ConfigFile(d) : d \in withConfig} \cup {d \o <<".git">> : d \in withGit}
            IN  StartWith(files,
                          [f \in files |-> IF Last(f) = ".git" THEN <<>> ELSE docs[Front(f)]],
                          [extensions |-> <<".ts">>, importPatterns |-> DEFAULT_IMPORT_PATTERNS,
                           skipDirs |-> DEFAULT_SKIP_DIRS])

NextCascade == LoadScanConfig

SpecCascade == InitCascade /\ [][NextCascade]_vars

----------------------------------------------------------------------------
(* Rule worlds: source files in the root and in a directory, a file whose   *)
(* name is a default skip name, a file below a skipped directory; every     *)
(* file with a harmless line and possibly a line with fetch or console      *)

RuleFileUniverse == {<<"index.ts">>, <<"a", "m.ts">>, <<"a", "util.js">>, <<"build">>, <<"dist", "m.ts">>}

RuleContents ==
    {<<<<"const", "x">>>>, <<<<"const", "x">>, <<"await", "fetch">>>>, <<<<"console", "fetch">>>>}

InitRules ==
    \E files \in SUBSET RuleFileUniverse,
       dirs \in {{}, {<<"a">>}}, skip \in {DEFAULT_SKIP_DIRS, DEFAULT_SKIP_DIRS \cup {"a"}} :
        \E content \in [files -> RuleContents] :
            /\ Cardinality({f \in files : content[f] # <<<<"const", "x">>>>}) <= 1
            /\ dirs = {} \/ skip = DEFAULT_SKIP_DIRS
            /\ StartWithUnreadable(files, dirs, content,
                                   [extensions |-> <<".ts">>, importPatterns |-> DEFAULT_IMPORT_PATTERNS,
                                    skipDirs |-> skip])

NextRules == RunRules

SpecRules == InitRules /\ [][NextRules]_vars

----------------------------------------------------------------------------
(* Nested worlds: two directories nested in one, a directory next to it,    *)
(* and a few imports inside a directory, between the nested ones and out    *)

NestedFiles == {<<"a", "x", "m.ts">>, <<"a", "x", "util.ts">>, <<"a", "y", "m.ts">>, <<"b", "m.ts">>}

NestedTokens ==
    {<<".", "util">>, <<"..", "y", "m">>, <<"..", "x", "m">>, <<"..", "..", "b", "m">>,
     <<"..", "a", "x", "m">>}

NestedImportSets == {W \in SUBSET (NestedFiles \X NestedTokens) : Cardinality(W) <= MaxGraphImports}

InitNested ==
    \E W \in NestedImportSets :
        StartWith(NestedFiles,
                  [f \in NestedFiles |->
                     [i \in 1..Cardinality({t \in NestedTokens : <<f, t>> \in W}) |->
                        [pat |-> "from",
                         tok |-> SetToSeq({t \in NestedTokens : <<f, t>> \in W})[i]]]],
                  [extensions |-> <<".ts">>, importPatterns |-> DEFAULT_IMPORT_PATTERNS,
                   skipDirs |-> DEFAULT_SKIP_DIRS])

SpecNested == InitNested /\ [][Next]_vars

----------------------------------------------------------------------------
(* Pattern worlds: two files with a few statements, and one or two pattern  *)
(* objects, with or without the global flag, able or not to match the       *)
(* empty string, the first with the lastIndex an earlier use left           *)

RegexFiles == <<<<"index.ts">>, <<"a", "index.ts">>>>

RegexStatements ==
    {[pat |-> "from",    tok |-> <<".", "util">>],
     [pat |-> "require", tok |-> <<"lodash">>],
     [pat |-> "from",    tok |-> <<>>]}

RegexContents == UNION {[1..n -> RegexStatements] : n \in 0..MaxRegexStatements}

PatternObjects ==
    [name : {"from", "require"}, global : BOOLEAN, empty : BOOLEAN, lastIndex : 0..MaxRegexStatements]

PatternObjectLists ==
    {<<p>> : p \in PatternObjects}
    \cup {<<p, [name |-> "require", global |-> TRUE, empty |-> FALSE, lastIndex |-> 0]>> :
            p \in {q \in PatternObjects : q.name = "from"}}

InitRegex ==
    \E first \in RegexContents, second \in {<<>>, <<[pat |-> "from", tok |-> <<".", "util">>]>>},
       patterns \in PatternObjectLists :
        StartWith(Range(RegexFiles),
                  [f \in Range(RegexFiles) |-> IF f = RegexFiles[1] THEN first ELSE second],
                  [extensions |-> <<".ts">>, importPatterns |-> patterns,
                   skipDirs |-> DEFAULT_SKIP_DIRS])

NextRegex ==
    ExtractImportsCall \/ ExtractImportsFor \/ ExtractImportsExec \/ ExtractImportsBody

\* the runtime goes on executing the loops of a call that has not returned
SpecRegex == InitRegex /\ [][NextRegex]_vars /\ WF_vars(NextRegex)

----------------------------------------------------------------------------
(* Vocabulary of the properties *)

\* a normalized absolute path lies inside the Base Directory
InsideBase(abs) == Len(abs) > Len(BaseAbs) /\ SubSeq(abs, 1, Len(BaseAbs)) = BaseAbs

\* a normalized absolute path is the Base Directory or lies inside it
AtOrInsideBase(abs) == Len(abs) >= Len(BaseAbs) /\ SubSeq(abs, 1, Len(BaseAbs)) = BaseAbs

\* the token begins with a same-directory or parent-directory marker
IsRelativeToken(tok) == tok # <<>> /\ Head(tok) \in {".", ".."}

\* the normalized target of a relative token written in a file
TargetOf(tok, file) == ResolveFrom(Front(BaseAbs \o file), tok)

\* the base-relative path of a target inside the Base Directory
BaseRelative(abs) == SubSeq(abs, Len(BaseAbs) + 1, Len(abs))

\* the cascade: the path, the path with each extension, the index file with each
\* extension
Cascade(rel, exts) ==
    <<rel>> \o [i \in 1..Len(exts) |-> AppendExt(rel, exts[i])]
            \o [i \in 1..Len(exts) |-> JoinIndex(rel, exts[i])]

SourceFileSetOf(obj) == {BaseRelative(f) : f \in Range(obj.sourceFiles)}

\* the positions of the cascade that are files of the Source File Set
Hits(rel, exts, obj) ==
    {k \in 1..Len(Cascade(rel, exts)) : Cascade(rel, exts)[k] \in SourceFileSetOf(obj)}

FirstHit(rel, exts, obj) ==
    Cascade(rel, exts)[CHOOSE k \in Hits(rel, exts, obj) : \A j \in Hits(rel, exts, obj) : k <= j]

\* the tokens the scan extracted from a file
TokensOf(file) == Range(extractImports(text[file], cfg.importPatterns))

ScannedFiles(obj) == SourceFileSetOf(obj)

HasRecord(obj, file) == \E i \in 1..Len(obj.fileDependencies) : obj.fileDependencies[i].file = file

RecordOf(obj, file) ==
    IF HasRecord(obj, file)
    THEN obj.fileDependencies[CHOOSE i \in 1..Len(obj.fileDependencies) :
                                 obj.fileDependencies[i].file = file]
    ELSE [file |-> file, internal |-> <<>>, external |-> <<>>]

\* the per-file listing of every target: the resolved targets, then the others
AllView(rec) == rec.internal \o rec.external

\* every path a report shows
RenderedPaths(out) ==
    {out.tree[i].dir : i \in 1..Len(out.tree)}
    \cup {out.depMap[i].file : i \in 1..Len(out.depMap)}
    \cup UNION {Range(AllView(out.depMap[i])) : i \in 1..Len(out.depMap)}
    \cup UNION {{<<out.mutual[i][1]>>, <<out.mutual[i][2]>>} : i \in 1..Len(out.mutual)}
    \cup {<<out.islands[i]>> : i \in 1..Len(out.islands)}

----------------------------------------------------------------------------
(* C1 *)

\* C1: for every relative import token whose normalized target lies inside the
\* Base Directory, resolveImportPath returns the first hit of the cascade (the
\* path itself, then the path with each extension in configured order, then the
\* index file with each extension in order) against the Source File Set.
C1_CascadeFirstHit ==
    scan # 0 =>
      \A i \in 1..Len(resolveLog) :
        LET e == resolveLog[i]
            target == ResolveFrom(Front(e.file), e.imp)
            rel == BaseRelative(target)
        IN  (InsideBase(target) /\ Hits(rel, cfg.extensions, heap[scan]) # {})
              => e.result = Just(FirstHit(rel, cfg.extensions, heap[scan]))

\* the same, for targets whose base-relative path does not begin with two dots
C1_CascadeFirstHit_NoDotDotName ==
    scan # 0 =>
      \A i \in 1..Len(resolveLog) :
        LET e == resolveLog[i]
            target == ResolveFrom(Front(e.file), e.imp)
            rel == BaseRelative(target)
        IN  (InsideBase(target) /\ ~StartsWithDotDot(rel)
               /\ Hits(rel, cfg.extensions, heap[scan]) # {})
              => e.result = Just(FirstHit(rel, cfg.extensions, heap[scan]))

----------------------------------------------------------------------------
(* C2 *)

\* C2: for every scanned file and every relative token whose normalized target
\* lies outside the Base Directory, neither the token nor its target appears in
\* any dependency view of the scan result or in any rendered output, and no
\* rendered path climbs above the Base Directory.
C2_EscapingTokenNeverShown ==
    scan # 0 =>
      /\ \A f \in ScannedFiles(heap[scan]) : \A tok \in TokensOf(f) :
           (IsRelativeToken(tok) /\ ~AtOrInsideBase(TargetOf(tok, f))) =>
             LET shown == {tok, Relative(BaseAbs, TargetOf(tok, f))}
             IN  /\ \A i \in 1..Len(heap[scan].fileDependencies) :
                       Range(AllView(heap[scan].fileDependencies[i])) \cap shown = {}
                 /\ \A i \in 1..Len(heap[scan].externalDeps) :
                       heap[scan].externalDeps[i].pkg \notin shown
                 /\ call.op = "format" => RenderedPaths(call.out) \cap shown = {}
      /\ call.op = "format" => \A p \in RenderedPaths(call.out) : p = <<>> \/ Head(p) # ".."

\* a report was rendered of a scan in which a file's relative token escapes
C2_Witness ==
    /\ scan # 0
    /\ call.op = "format"
    /\ \E f \in ScannedFiles(heap[scan]) : \E tok \in TokensOf(f) :
          IsRelativeToken(tok) /\ ~AtOrInsideBase(TargetOf(tok, f))


----------------------------------------------------------------------------
(* C3 *)

\* what the cascade yields for a base-relative path: its first hit, or the path
\* itself when nothing matches
CascadeOrRaw(rel, exts, obj) ==
    IF Hits(rel, exts, obj) = {} THEN rel ELSE FirstHit(rel, exts, obj)

\* C3: a relative token whose normalized target is inside the Base Directory is
\* never dropped: the importing file's Dependency Record contains the first hit
\* of the cascade as a target and, when nothing matches, the normalized
\* base-relative path itself.
C3_UnresolvedStillListed ==
    scan # 0 =>
      \A f \in ScannedFiles(heap[scan]) : \A tok \in TokensOf(f) :
        (IsRelativeToken(tok) /\ InsideBase(TargetOf(tok, f))) =>
          Includes(AllView(RecordOf(heap[scan], f)),
                   CascadeOrRaw(BaseRelative(TargetOf(tok, f)), cfg.extensions, heap[scan]))

\* the same, for targets whose base-relative path does not begin with two dots
C3_UnresolvedStillListed_NoDotDotName ==
    scan # 0 =>
      \A f \in ScannedFiles(heap[scan]) : \A tok \in TokensOf(f) :
        (IsRelativeToken(tok) /\ InsideBase(TargetOf(tok, f))
           /\ ~StartsWithDotDot(BaseRelative(TargetOf(tok, f)))) =>
          Includes(AllView(RecordOf(heap[scan], f)),
                   CascadeOrRaw(BaseRelative(TargetOf(tok, f)), cfg.extensions, heap[scan]))

----------------------------------------------------------------------------
(* C4 *)

\* C4: for every Alias Map and every non-relative token the alias applied is the
\* matching prefix of greatest length, whatever order the aliases were configured
\* in, and the token is resolved under that alias's target directory.
C4_LongestPrefixApplied ==
    call.op = "alias" =>
      LET M == {a \in Range(call.aliases) : MatchesPrefix(call.token, a.prefix)}
          r == call.resolved
      IN  IF M = {} THEN ~r.matched
          ELSE /\ r.matched
               /\ r.alias \in M
               /\ \A b \in M : PrefixLength(b.prefix) <= PrefixLength(r.alias.prefix)
               /\ \/ r.result.null
                  \/ r.result.path = CascadeOrRaw(MappedPath(r.alias, call.token), cfg.extensions,
                                                  heap[call.ref])

\* '@/' is configured before '@/components/', both lib/Button.ts and
\* components/Button.ts exist, and '@/components/Button' resolves to lib/Button.ts
C4_Witness ==
    /\ call.op = "alias"
    /\ call.aliases = <<[prefix |-> <<"@">>, target |-> <<>>],
                        [prefix |-> <<"@", "components">>, target |-> <<"lib">>]>>
    /\ call.token = <<"@", "components", "Button">>
    /\ {<<"lib", "Button.ts">>, <<"components", "Button.ts">>} \subseteq ScannedFiles(heap[call.ref])
    /\ call.resolved.result = Just(<<"lib", "Button.ts">>)

----------------------------------------------------------------------------
(* C5 *)

\* C5: a token that is not relative (no alias is configured) is an opaque
\* external reference: the file's dependency listing records it with exactly the
\* text written in the source, it is not in the resolved view, and a file whose
\* only token it is adds no directory-to-directory edge.
C5_ExternalKeptVerbatim ==
    scan # 0 =>
      \A f \in ScannedFiles(heap[scan]) : \A tok \in TokensOf(f) :
        ~IsRelativeToken(tok) =>
          /\ Includes(AllView(RecordOf(heap[scan], f)), tok)
          /\ ~Includes(RecordOf(heap[scan], f).internal, tok)
          /\ TokensOf(f) = {tok} => DirDependencies(<<>>, <<RecordOf(heap[scan], f)>>) = <<>>

\* the same with the package name in place of the token text, for the tokens that
\* do not begin with a dot
C5_ExternalKeptAsPackage ==
    scan # 0 =>
      \A f \in ScannedFiles(heap[scan]) : \A tok \in TokensOf(f) :
        ~StartsWithDot(tok) =>
          /\ Includes(RecordOf(heap[scan], f).external, PkgName(tok))
          /\ ~Includes(RecordOf(heap[scan], f).internal, tok)
          /\ TokensOf(f) = {tok} => DirDependencies(<<>>, <<RecordOf(heap[scan], f)>>) = <<>>


----------------------------------------------------------------------------
(* C6 *)

\* the tokens of the matches of one pattern, in content order
MatchesOf(content, pattern) ==
    LET hit(s) == s.pat = pattern /\ s.tok # <<>>
        m == SelectSeq(content, hit)
    IN  [i \in 1..Len(m) |-> m[i].tok]

RECURSIVE AllMatches(_, _)
\* every match, pattern by pattern in configured order
AllMatches(content, patterns) ==
    IF patterns = <<>> THEN <<>>
    ELSE MatchesOf(content, Head(patterns)) \o AllMatches(content, Tail(patterns))

\* a sequence without the repetitions of its earlier members
Dedupe(s) ==
    LET keep == {i \in 1..Len(s) : \A j \in 1..(i - 1) : s[j] # s[i]}
        RECURSIVE Pick(_)
        Pick(i) == IF i > Len(s) THEN <<>>
                   ELSE (IF i \in keep THEN <<s[i]>> ELSE <<>>) \o Pick(i + 1)
    IN  Pick(1)

NoDuplicates(s) == \A i, j \in 1..Len(s) : i # j => s[i] # s[j]

\* the target a token is recorded as by the scan: the resolved or raw path of a
\* token that begins with a dot, the package name of another; none stands
\* for a token that is dropped
EntryOf(tok, file, obj) ==
    IF StartsWithDot(tok)
    THEN LET r == resolveImportPath(tok, BaseAbs \o file, cfg.extensions, SourceFileSetOf(obj))
         IN  IF Truthy(r) THEN <<r.path>> ELSE <<>>
    ELSE <<PkgName(tok)>>

RECURSIVE EntriesOf(_, _, _)
EntriesOf(toks, file, obj) ==
    IF toks = <<>> THEN <<>>
    ELSE EntryOf(Head(toks), file, obj) \o EntriesOf(Tail(toks), file, obj)

\* the targets of a file in first-seen order, each once
FirstSeenTargets(file, obj) ==
    Dedupe(EntriesOf(AllMatches(text[file], cfg.importPatterns), file, obj))

\* C6: for every scanned file, the 'all' dependency view holds no target twice
\* and lists the targets in first-seen order, the tokens being seen pattern by
\* pattern in configured order and, within a pattern, in match order.
C6_AllViewFirstSeenOrder ==
    scan # 0 =>
      \A f \in ScannedFiles(heap[scan]) :
        /\ NoDuplicates(AllView(RecordOf(heap[scan], f)))
        /\ AllView(RecordOf(heap[scan], f)) = FirstSeenTargets(f, heap[scan])

\* the same of the two lists of a record taken one by one: neither holds a target
\* twice, and each is in first-seen order
C6_EachListFirstSeenOrder ==
    scan # 0 =>
      \A f \in ScannedFiles(heap[scan]) :
        LET rec == RecordOf(heap[scan], f)
            seen == FirstSeenTargets(f, heap[scan])
            inList(l) == SelectSeq(seen, LAMBDA x : Includes(l, x))
        IN  /\ NoDuplicates(rec.internal) /\ NoDuplicates(rec.external)
            /\ Range(AllView(rec)) = Range(seen)
            /\ \A i, j \in 1..Len(rec.internal) : i < j =>
                 \E k, l \in 1..Len(seen) : k < l /\ seen[k] = rec.internal[i] /\ seen[l] = rec.internal[j]
            /\ \A i, j \in 1..Len(rec.external) : i < j =>
                 \E k, l \in 1..Len(seen) : k < l /\ seen[k] = rec.external[i] /\ seen[l] = rec.external[j]

----------------------------------------------------------------------------
(* C7 *)

Count(s, x) == Cardinality({i \in 1..Len(s) : s[i] = x})

\* the top-level directories of the files and targets of the Dependency Records
RecordDirs(obj) ==
    {TopDir(r.file) : r \in Range(obj.fileDependencies)} \cup
    UNION {{TopDir(t) : t \in Range(r.internal)} : r \in Range(obj.fileDependencies)}

\* some file of directory a has a resolved target in another directory b
Edge(obj, a, b) ==
    a # b /\ \E r \in Range(obj.fileDependencies) :
                TopDir(r.file) = a /\ \E t \in Range(r.internal) : TopDir(t) = b

\* C7: the Mutual Dependency list of a report holds each unordered pair of
\* directories with an edge in both directions exactly once, the
\* lexicographically smaller directory first, and no pair with an edge missing.
C7_MutualOncePerPair ==
    call.op = "format" =>
      LET obj == heap[call.ref]
          m == call.out.mutual
      IN  /\ \A a, b \in RecordDirs(obj) :
                (Edge(obj, a, b) /\ Edge(obj, b, a) /\ StrLess(<<a>>, <<b>>))
                  => Count(m, <<a, b>>) = 1 /\ Count(m, <<b, a>>) = 0
          /\ \A i \in 1..Len(m) : Edge(obj, m[i][1], m[i][2]) /\ Edge(obj, m[i][2], m[i][1])

\* a report of a scan in which two directories import from each other and one of
\* them also has an edge that is not returned
C7_Witness ==
    /\ call.op = "format"
    /\ Len(call.out.mutual) = 1
    /\ LET obj == heap[call.ref]
       IN  \E a, b \in RecordDirs(obj) : Edge(obj, a, b) /\ ~Edge(obj, b, a)

----------------------------------------------------------------------------
(* C8 *)

\* the number of scanned files directly inside a directory
DirectCount(dir, obj) == Cardinality({f \in ScannedFiles(obj) : Dirname(f) = dir})

\* the directories that hold a scanned file, the root apart
NonRootDirs(obj) == {Dirname(f) : f \in ScannedFiles(obj)} \ {<<".">>}

\* C8: detectSuspiciousDirs(tree, t) returns exactly the non-root directories
\* whose direct file count is at least t, t being 50 when it is not given, each
\* with that count and once, in descending order of count.
C8_SuspiciousDirs ==
    call.op = "detect" =>
      LET t == IF call.threshold.given THEN call.threshold.value ELSE 50
          obj == heap[call.ref]
          out == call.suspicious
      IN  /\ {out[i].dir : i \in 1..Len(out)} = {d \in NonRootDirs(obj) : DirectCount(d, obj) >= t}
          /\ \A i \in 1..Len(out) : out[i].count = DirectCount(out[i].dir, obj)
          /\ \A i, j \in 1..Len(out) : i < j => out[i].dir # out[j].dir /\ out[i].count >= out[j].count

\* detection with the default threshold of a tree whose root holds 51 files, one
\* directory exactly 50 and its subdirectory 49: only the directory is flagged
C8_Witness ==
    /\ call.op = "detect"
    /\ ~call.threshold.given
    /\ DirectCount(<<".">>, heap[call.ref]) = 51
    /\ DirectCount(<<"vendor">>, heap[call.ref]) = 50
    /\ DirectCount(<<"vendor", "sub">>, heap[call.ref]) = 49
    /\ call.suspicious = <<[dir |-> <<"vendor">>, count |-> 50]>>


----------------------------------------------------------------------------
(* C9 *)

\* a path equals d or lies under d
Under(p, d) == p = d \/ (Len(p) > Len(d) /\ SubSeq(p, 1, Len(d)) = d)

TreeKeys(obj) == {obj.directoryTree[i].dir : i \in 1..Len(obj.directoryTree)}

TreeEntries(obj) == Range(obj.directoryTree)

Records(obj) == Range(obj.fileDependencies)

\* the entries of the scan that lie under no directory of E are all in the result
KeepsTheRest(old, new, E) ==
    /\ \A f \in ScannedFiles(old) : (\A d \in E : ~Under(f, d)) => f \in ScannedFiles(new)
    /\ \A e \in TreeEntries(old) : (\A d \in E : ~Under(e.dir, d)) => e \in TreeEntries(new)
    /\ \A r \in Records(old) : (\A d \in E : ~Under(r.file, d)) => r \in Records(new)

\* the result holds nothing under the directory d
NothingUnder(new, d) ==
    /\ \A f \in ScannedFiles(new) : ~Under(f, d)
    /\ \A k \in TreeKeys(new) : ~Under(k, d)
    /\ \A r \in Records(new) : ~Under(r.file, d)

\* C9: after filterScanResults(scan, E, baseDir), for every d of E no source file,
\* no Directory Tree key and no Dependency Record key equals d or lies under d, and
\* every entry under no directory of E is kept.
C9_ExcludedRemoved ==
    call.op = "filter" =>
      LET E == Range(call.excludeDirs)
      IN  /\ \A d \in E : NothingUnder(heap[call.result], d)
          /\ KeepsTheRest(call.before, heap[call.result], E)

\* C9, amended: the same for every d of E other than the root '.', whose tree key
\* is kept whatever E holds.
C9_ExcludedRemoved_RootKept ==
    call.op = "filter" =>
      LET E == Range(call.excludeDirs)
          old == call.before
          new == heap[call.result]
      IN  /\ \A d \in E \ {<<".">>} : NothingUnder(new, d)
          /\ KeepsTheRest(old, new, E)
          /\ <<".">> \in TreeKeys(old) => <<".">> \in TreeKeys(new)

\* a filter that removes a directory with its nested directory, their files and
\* a Dependency Record, and keeps another directory and the root
C9_Witness ==
    /\ call.op = "filter"
    /\ call.excludeDirs = <<<<"a">>>>
    /\ {<<"a">>, <<"a", "util">>, <<"b">>, <<".">>} \subseteq TreeKeys(call.before)
    /\ \E r \in Records(call.before) : Under(r.file, <<"a">>)
    /\ TreeKeys(heap[call.result]) = {<<"b">>, <<".">>}
    /\ ScannedFiles(heap[call.result]) = {<<"index.ts">>, <<"b", "m.ts">>}

----------------------------------------------------------------------------
(* C10 *)

\* the result holds only entries of the scan, and the scan object holds what it
\* held when the call was made
SubtractiveAndNonDestructive ==
    LET old == call.before
        new == heap[call.result]
    IN  /\ TreeEntries(new) \subseteq TreeEntries(old)
        /\ Range(new.sourceFiles) \subseteq Range(old.sourceFiles)
        /\ Records(new) \subseteq Records(old)
        /\ heap[call.ref] = old

----------------------------------------------------------------------------
(* C11 *)

----------------------------------------------------------------------------
(* C12 *)

\* the option is absent or empty
NotSupplied(option) == option = Undefined \/ option = <<>>

\* the scan result holds no tree entry, no source file and no Dependency Record
IsEmptyResult(obj) ==
    obj.directoryTree = <<>> /\ obj.sourceFiles = <<>> /\ obj.fileDependencies = <<>>

----------------------------------------------------------------------------
(* C13 *)

\* the order of the pages: the root before every other directory, the others
\* in lexicographic order
PageBefore(a, b) == a # b /\ (a = <<".">> \/ (b # <<".">> /\ StrLess(a, b)))

\* C13: the walkthrough of a scan has exactly 1 + D pages, D the number of
\* distinct directories of the Directory Tree; page 1 is the overview and the
\* pages 2..1+D are the directories, each on one page, the root first and the
\* others in lexicographic order.
C13_OnePagePerDirectory ==
    call.op = "page" =>
      LET keys == TreeKeys(heap[call.ref])
          p == call.paged
      IN  /\ p.total = 1 + Cardinality(keys)
          /\ call.page = 1 => p.kind = "overview"
          /\ (call.page >= 2 /\ call.page <= 1 + Cardinality(keys)) =>
                /\ p.kind = "directory"
                /\ p.dir \in keys
                /\ Cardinality({k \in keys : PageBefore(k, p.dir)}) = call.page - 2

\* the last page of a walkthrough of the root, two directories and a nested one
C13_Witness ==
    /\ call.op = "page"
    /\ TreeKeys(heap[call.ref]) = {<<".">>, <<"a">>, <<"a", "util">>, <<"b">>}
    /\ call.page = 5
    /\ call.paged.kind = "directory"
    /\ call.paged.dir = <<"b">>
    /\ call.paged.total = 5

----------------------------------------------------------------------------
(* C14 *)

\* the number of pages of the walkthrough of a scan result
TotalPages(obj) == 1 + Cardinality(TreeKeys(obj))

\* the page number is outside [1, total]
OutsidePages(n, obj) == n < 1 \/ n > TotalPages(obj)

\* C14: every integer page number outside [1, total] asked of the walkthrough,
\* through formatPaginatedInterview or through the --page flag, gives the
\* out-of-range result, and not the content of another page.
C14_OutOfRangePage ==
    /\ (call.op = "page" /\ OutsidePages(call.page, heap[call.ref]))
          => call.paged.kind = "outOfRange"
    /\ (call.op = "interview" /\ ~call.full /\ call.pageFlag.given
            /\ OutsidePages(call.pageFlag.value, heap[call.result]))
          => call.paged.kind = "outOfRange"

\* the same for formatPaginatedInterview, and for the --page flag with a number
\* other than 0
C14_OutOfRangePage_NotZeroFlag ==
    /\ (call.op = "page" /\ OutsidePages(call.page, heap[call.ref]))
          => call.paged.kind = "outOfRange"
    /\ (call.op = "interview" /\ ~call.full /\ call.pageFlag.given /\ call.pageFlag.value # 0
            /\ OutsidePages(call.pageFlag.value, heap[call.result]))
          => call.paged.kind = "outOfRange"

----------------------------------------------------------------------------
(* C15 *)

\* the names of the directories a file is reached through
DirNamesOf(f) == {f[i] : i \in 1..(Len(f) - 1)}

\* C15: walkDir(root, skip) returns exactly the files under root reached
\* through directories none of whose names is in skip, each once: a directory
\* of a skipped name is pruned at every depth, and the skip set applies to
\* directory names only, never to a relative path nor to a file's own name.
C15_WalkSkipsDirectoriesOnly ==
    call.op = "walk" =>
      /\ Range(call.walked) = {BaseAbs \o f : f \in {g \in fsys : DirNamesOf(g) \cap cfg.skipDirs = {}}}
      /\ Len(call.walked) = Cardinality(Range(call.walked))

\* the same with the skip set applied to the names of files as well
C15_WalkSkipsEveryName ==
    call.op = "walk" =>
      /\ Range(call.walked) = {BaseAbs \o f : f \in {g \in fsys : Range(g) \cap cfg.skipDirs = {}}}
      /\ Len(call.walked) = Cardinality(Range(call.walked))

----------------------------------------------------------------------------
(* C16 *)

\* the walk lists the directory: it is the root or holds a file, and neither
\* its name nor the name of a directory above it is in the skip set
WalkReads(d) ==
    /\ d = <<>> \/ \E f \in fsys : Len(f) > Len(d) /\ SubSeq(f, 1, Len(d)) = d
    /\ Range(d) \cap cfg.skipDirs = {}

\* C16: when a directory that the walk lists cannot be read, the failure reaches
\* the caller of scanCodebase: there is no scan result, partial or not, however
\* deep the directory is and whatever was read before it.
C16_ReadFailureFailsTheScan ==
    (\E d \in unreadable : WalkReads(d)) =>
        /\ scan = 0
        /\ heap = <<>>
        /\ call.op \in {"scan", "walk"} => call.threw /\ call.walked = <<>>

\* a scan of a tree with readable files in the root and in a directory, and an
\* unreadable directory two levels down: the scan threw
C16_Witness ==
    /\ call.op = "scan"
    /\ call.threw
    /\ unreadable = {<<"b", "a">>}
    /\ {<<"index.ts">>, <<"a", "m.ts">>, <<"b", "a", "m.ts">>} \subseteq fsys
    /\ cfg.skipDirs = {}
    /\ scan = 0

----------------------------------------------------------------------------
(* C17 *)

\* the non-root directories of a scan with 50 or more direct source files
LargeDirs(obj) == {d \in NonRootDirs(obj) : DirectCount(d, obj) >= 50}

\* the pairs of directory and file count handed to the renderer as excluded
ReportedExclusions == {<<call.suspicious[i].dir, call.suspicious[i].count>> : i \in 1..Len(call.suspicious)}

\* C17: the interview without --full hands the renderer a scan with no non-root
\* directory of 50 or more direct source files and nothing under such a
\* directory of the original scan, whose source-file total counts the kept
\* files only, and reports every excluded directory with its file count; with
\* --full the renderer gets the scan as it was and no directory is excluded.
C17_InterviewAutoExclusion ==
    call.op = "interview" =>
      LET old == call.before
          new == heap[call.result]
          kept == {f \in ScannedFiles(old) : \A d \in LargeDirs(old) : ~Under(f, d)}
      IN  IF call.full
          THEN /\ new = old
               /\ call.suspicious = <<>>
               /\ call.out.excluded = <<>>
               /\ call.out.total = Cardinality(ScannedFiles(old))
          ELSE /\ LargeDirs(new) = {}
               /\ detectSuspiciousDirs(new.directoryTree, [given |-> FALSE, value |-> 0]) = <<>>
               /\ \A d \in LargeDirs(old) : NothingUnder(new, d)
               /\ ScannedFiles(new) = kept
               /\ Len(new.sourceFiles) = Cardinality(kept)
               /\ ReportedExclusions = {<<d, DirectCount(d, old)>> : d \in LargeDirs(old)}
               /\ Len(call.suspicious) = Cardinality(LargeDirs(old))

\* an interview without --full of a tree whose vendor directory holds 50 files
\* and a small nested directory, next to files in the root
C17_Witness ==
    /\ call.op = "interview"
    /\ ~call.full
    /\ DirectCount(<<"vendor">>, call.before) = 50
    /\ DirectCount(<<"vendor", "sub">>, call.before) = 1
    /\ DirectCount(<<".">>, call.before) = 2
    /\ Cardinality(ScannedFiles(heap[call.result])) = 2

----------------------------------------------------------------------------
(* C20 *)

\* the names the user supplied to the run, on the command line or in the config
SuppliedNames ==
    UNION Range(call.skipArgs) \cup call.config.skip.value \cup call.config.scan.skipDirs.value

----------------------------------------------------------------------------
(* C19 *)

\* d is dir or a directory above it
IsAncestorOrSelf(d, dir) == Len(d) <= Len(dir) /\ SubSeq(dir, 1, Len(d)) = d

\* the repository roots above or at dir: the filesystem root is never one
RepoRootsOf(dir) == {d \in CascadeDirs : d # <<>> /\ IsAncestorOrSelf(d, dir) /\ (d \o <<".git">>) \in fsys}

\* the directories from dir up to its repository root, or up to the filesystem
\* root when it is in no repository
SearchChain(dir) ==
    {d \in CascadeDirs : /\ IsAncestorOrSelf(d, dir)
                         /\ \A r \in RepoRootsOf(dir) : Len(d) >= Len(r)}

\* the directory has a .archtest.yml that parses with a rules array
HasGoodConfig(d) == ConfigFile(d) \in fsys /\ text[ConfigFile(d)] = ValidDoc

\* C19: loadScanConfig(baseDir) returns the config of the nearest directory
\* with a good .archtest.yml among baseDir and its parents up to the repository
\* root (the filesystem root outside of a repository), else the one of the
\* working directory, and null only when none of these directories has one.
C19_NearestConfigWins ==
    call.op = "config" =>
      LET good == {d \in SearchChain(call.baseDir) : HasGoodConfig(d)}
      IN  IF good # {}
          THEN /\ ~call.loaded.null
               /\ call.loaded.configDir \in good
               /\ \A d \in good : Len(d) <= Len(call.loaded.configDir)
          ELSE IF HasGoodConfig(call.cwd)
          THEN ~call.loaded.null /\ call.loaded.configDir = call.cwd
          ELSE call.loaded.null

\* the lookup from a source directory without a config, below a package whose
\* config has no rules array, in a repository with a good config at its root,
\* with good configs at the filesystem root and in the working directory too
C19_Witness ==
    /\ call.op = "config"
    /\ call.baseDir = <<"repo", "pkg", "src">>
    /\ call.cwd = <<"tmp">>
    /\ ConfigFile(<<"repo", "pkg", "src">>) \notin fsys
    /\ ConfigFile(<<"repo", "pkg">>) \in fsys /\ text[ConfigFile(<<"repo", "pkg">>)] = NoRulesDoc
    /\ HasGoodConfig(<<"repo">>) /\ HasGoodConfig(<<>>) /\ HasGoodConfig(<<"tmp">>)
    /\ <<"repo", ".git">> \in fsys
    /\ call.loaded.configDir = <<"repo">>

----------------------------------------------------------------------------
(* C18 *)

\* the files of the walk: those below no directory of a skipped name
FilesOfTheWalk == {f \in fsys : DirNamesOf(f) \cap cfg.skipDirs = {}}

\* some deny pattern of the rule matches some line of some file that matches
\* one of its scope globs and none of its exclude globs
HasViolation(rule, files) ==
    \E f \in files :
        /\ \E g \in Range(rule.files) : minimatch(f, g)
        /\ \A g \in Range(rule.exclude) : ~minimatch(f, g)
        /\ \E p \in Range(rule.deny), i \in 1..Len(text[f]) : RegexMatches(text[f][i], p)

\* C18: a rule check whose rule file parsed exits with code 1 exactly when a
\* rule has a violation, else with code 0; and a rule has violations exactly
\* when one of its deny patterns matches a line of a file of the walk that
\* matches one of its scope globs and none of its exclude globs.
C18_ExitCodeIffViolation ==
    call.op = "check" =>
      /\ call.exit = IF \E i \in 1..Len(call.rules) : HasViolation(call.rules[i], FilesOfTheWalk)
                     THEN 1 ELSE 0
      /\ ~call.threw =>
            \A i \in 1..Len(call.rules) :
                call.results[i].violations # <<>> <=> HasViolation(call.rules[i], FilesOfTheWalk)

\* the same for the files that the walk of the code returns (no name of the
\* path is a skipped one) in a tree whose directories can all be listed
C18_ExitCodeIffViolation_AsWalked ==
    call.op = "check" /\ ~call.threw =>
      LET walked == {f \in fsys : Range(f) \cap cfg.skipDirs = {}}
      IN  /\ call.exit = IF \E i \in 1..Len(call.rules) : HasViolation(call.rules[i], walked)
                         THEN 1 ELSE 0
          /\ \A i \in 1..Len(call.rules) :
                call.results[i].violations # <<>> <=> HasViolation(call.rules[i], walked)

----------------------------------------------------------------------------
(* C21 *)

\* the edges of the directory graph of a report, the directories as paths
GraphEdges(graph) ==
    UNION {{<<<<graph[i].dir>>, <<graph[i].targets[j]>>>> : j \in 1..Len(graph[i].targets)} :
             i \in 1..Len(graph)}

\* the pairs of directories S, T, S # T, such that a file of S has a resolved
\* target in T, the directory of a path being given by dirOf
EdgesBy(obj, dirOf(_)) ==
    {e \in UNION {{<<dirOf(r.file), dirOf(t)>> : t \in Range(r.internal)} :
                    r \in Range(obj.fileDependencies)} : e[1] # e[2]}

\* C21: the Directory Dependency Graph has the edge S -> T exactly when a file
\* whose containing directory (its full directory path) is S has a resolved
\* target whose containing directory is T, and S # T.
C21_EdgesBetweenContainingDirs ==
    call.op = "format" =>
        GraphEdges(call.out.graph) = EdgesBy(heap[call.ref], Dirname)

\* the same with the first segment of the path in place of the directory
C21_EdgesBetweenTopLevelDirs ==
    call.op = "format" =>
        GraphEdges(call.out.graph) = EdgesBy(heap[call.ref], LAMBDA p : <<TopDir(p)>>)

----------------------------------------------------------------------------
(* C22 *)

\* the target that the Dependency Record shows for a base-relative path: the
\* first hit of the cascade or the path itself, the Base Directory being shown
\* as the empty path or as '.'
ShownTargets(rel, exts, obj) ==
    IF Hits(rel, exts, obj) # {} THEN {FirstHit(rel, exts, obj)}
    ELSE IF rel = <<>> THEN {<<>>, <<".">>}
    ELSE {rel}

\* C22: leaving the Base Directory is the only reason for a relative token to
\* be omitted: every relative token whose normalized target is the Base
\* Directory or a path inside it - a path whose first segment begins with two
\* dots and the Base Directory itself included - appears as a target in the
\* Dependency Record of the importing file.
C22_OnlyEscapingTokensOmitted ==
    scan # 0 =>
      \A f \in ScannedFiles(heap[scan]) : \A tok \in TokensOf(f) :
        (IsRelativeToken(tok) /\ AtOrInsideBase(TargetOf(tok, f))) =>
          /\ HasRecord(heap[scan], f)
          /\ Range(AllView(RecordOf(heap[scan], f)))
               \cap ShownTargets(BaseRelative(TargetOf(tok, f)), cfg.extensions, heap[scan]) # {}

\* the same, leaving out the targets whose base-relative path begins with two
\* dots and the Base Directory without an index file
C22_OnlyEscapingTokensOmitted_Plain ==
    scan # 0 =>
      \A f \in ScannedFiles(heap[scan]) : \A tok \in TokensOf(f) :
        LET rel == BaseRelative(TargetOf(tok, f))
        IN  (/\ IsRelativeToken(tok) /\ AtOrInsideBase(TargetOf(tok, f))
             /\ ~StartsWithDotDot(rel)
             /\ rel = <<>> => Hits(rel, cfg.extensions, heap[scan]) # {}) =>
              /\ HasRecord(heap[scan], f)
              /\ Range(AllView(RecordOf(heap[scan], f)))
                   \cap ShownTargets(rel, cfg.extensions, heap[scan]) # {}

----------------------------------------------------------------------------
(* C23 *)

\* the scan resolved the token of the file against the file's directory
ResolvedAsRelative(f, tok) ==
    \E i \in 1..Len(resolveLog) : resolveLog[i].file = BaseAbs \o f /\ resolveLog[i].imp = tok

\* C23: a token is resolved as a relative path exactly when it begins with a
\* same-directory or parent-directory marker (or is '.' or '..'); a token that
\* merely begins with a dot, such as '.env', is not resolved against the
\* directory of the importing file and goes to the external step.
C23_RelativeOnlyByMarker ==
    scan # 0 =>
      \A f \in ScannedFiles(heap[scan]) : \A tok \in TokensOf(f) :
        /\ ResolvedAsRelative(f, tok) <=> IsRelativeToken(tok)
        /\ ~IsRelativeToken(tok) => Includes(RecordOf(heap[scan], f).external, PkgName(tok))

\* the same with "begins with a dot" in place of the markers
C23_RelativeByLeadingDot ==
    scan # 0 =>
      \A f \in ScannedFiles(heap[scan]) : \A tok \in TokensOf(f) :
        /\ ResolvedAsRelative(f, tok) <=> StartsWithDot(tok)
        /\ ~StartsWithDot(tok) => Includes(RecordOf(heap[scan], f).external, PkgName(tok))

----------------------------------------------------------------------------
(* C24 *)

\* the token is the prefix of the alias and nothing more
EqualsPrefix(token, alias) == token = alias.prefix \o <<"">>

\* the index files of a directory that are source files of the scan
IndexFilesOf(dir, obj) ==
    {JoinIndex(dir, cfg.extensions[i]) : i \in 1..Len(cfg.extensions)} \cap ScannedFiles(obj)

C24_Witness_Root ==
    /\ call.op = "alias"
    /\ call.token = <<"@", "">>
    /\ <<"index.ts">> \in ScannedFiles(heap[call.ref])
    /\ call.resolved.result = Just(<<"index.ts">>)

----------------------------------------------------------------------------
(* C25 *)

\* the tokens of a content for a list of pattern objects: every match with a
\* captured token, pattern by pattern from the start of the content, without
\* repetitions
TokensFromStart(content, patterns) ==
    Dedupe(AllMatches(content, [i \in 1..Len(patterns) |-> patterns[i].name]))

\* C25: extractImports never changes the configured pattern objects, their
\* lastIndex included, and scans every file from the start of its content: the
\* tokens it returns for a file are those of the file alone, whatever lastIndex
\* the patterns came with and whichever files were scanned before.
C25_PatternsUntouchedScanFromStart ==
    /\ [][cfg' = cfg]_vars
    /\ [](call.op = "extracted" =>
             call.imports = TokensFromStart(text[call.file], cfg.importPatterns))

\* the second file has been scanned with a global pattern that came with a
\* lastIndex of 1, and its one import, at position 0, was extracted
C25_Witness ==
    /\ call.op = "extracted"
    /\ call.file = RegexFiles[2]
    /\ cfg.importPatterns[1] = [name |-> "from", global |-> TRUE, empty |-> FALSE, lastIndex |-> 1]
    /\ text[RegexFiles[1]] # <<>>
    /\ call.imports = <<<<".", "util">>>>

----------------------------------------------------------------------------
(* C26 *)

\* C26: every call of extractImports returns, whatever the content and the
\* patterns, a pattern without the global flag and a pattern that can match the
\* empty string included.
C26_ExtractImportsTerminates == (call.op = "extract") ~> (call.op = "extracted")

\* the same for patterns that all have the global flag and cannot match the
\* empty string
C26_TerminatesWithAdvancingPatterns ==
    (call.op = "extract" /\ \A p \in Range(cfg.importPatterns) : p.global /\ ~p.empty)
        ~> (call.op = "extracted")

----------------------------------------------------------------------------
(* C27 *)

\* the scan result as scanCodebase made it
FreshScan == scanCodebase(fsys, text, cfg).result

----------------------------------------------------------------------------
(* C28 *)

RECURSIVE TreeFileCount(_)
\* the per-directory file counts of a Directory Tree, added up
TreeFileCount(tree) ==
    IF tree = <<>> THEN 0 ELSE Len(Head(tree).files) + TreeFileCount(Tail(tree))

\* the three parts of a scan result describe the same files
PartsAgree(obj) ==
    /\ TreeFileCount(obj.directoryTree) = Len(obj.sourceFiles)
    /\ \A i \in 1..Len(obj.sourceFiles) :
          LET rel == Relative(BaseAbs, obj.sourceFiles[i])
          IN  \E j \in 1..Len(obj.directoryTree) :
                 /\ obj.directoryTree[j].dir = Dirname(rel)
                 /\ Basename(rel) \in Range(obj.directoryTree[j].files)
    /\ \A i \in 1..Len(obj.fileDependencies) :
          \E j \in 1..Len(obj.sourceFiles) :
             obj.fileDependencies[i].file = Relative(BaseAbs, obj.sourceFiles[j])

NamesNoSourceFile(excludeDirs, obj) ==
    \A i \in 1..Len(excludeDirs) : \A j \in 1..Len(obj.sourceFiles) :
        excludeDirs[i] # Relative(BaseAbs, obj.sourceFiles[j])

\* the same for scan results and for results filtered by lists that name
\* directories only
C28_PartsAgreeForDirectoryLists ==
    \A i \in 1..Len(heap) :
        (call.op = "filter" /\ i = call.result /\ i # scan
            => NamesNoSourceFile(call.excludeDirs, call.before))
        => PartsAgree(heap[i])

----------------------------------------------------------------------------
(* C29 *)

\* C29: the Dependency Records of the result of filterScanResults are the
\* records of the scan, in their order, whose key file neither is nor lies
\* under an entry of the exclude list; each kept record has the internal and
\* external target lists it had, whether or not a target lies under an excluded
\* directory.
C29_KeptRecordsUntouched ==
    call.op = "filter" =>
      LET E == Range(call.excludeDirs)
      IN  heap[call.result].fileDependencies =
            SelectSeq(call.before.fileDependencies,
                      LAMBDA r : \A d \in E : ~Under(r.file, d))

\* b is excluded and the record of a/m.ts, which is kept, still names b/m.ts
C29_Witness ==
    /\ call.op = "filter"
    /\ call.excludeDirs = <<<<"b">>>>
    /\ \E r \in Records(call.before) : r.file = <<"b", "m.ts">>
    /\ \E r \in Records(heap[call.result]) :
          /\ r.file = <<"a", "m.ts">>
          /\ Includes(r.internal, <<"b", "m.ts">>)
    /\ \A r \in Records(heap[call.result]) : r.file # <<"b", "m.ts">>

----------------------------------------------------------------------------
(* C30 *)

\* C30: filterScanResults removes a path exactly when it equals an entry of the
\* exclude list or continues one after a path separator - a sibling whose name
\* only starts with the entry's name stays, directory, files and records - and
\* the root key '.' of the Directory Tree stays whatever the list holds.
C30_WholeSegmentsRootKept ==
    call.op = "filter" =>
      LET E == Range(call.excludeDirs)
          old == call.before
          new == heap[call.result]
          Gone(p) == \E d \in E : Under(p, d)
      IN  /\ TreeKeys(new) = {k \in TreeKeys(old) : k = <<".">> \/ ~Gone(k)}
          /\ ScannedFiles(new) = {f \in ScannedFiles(old) : ~Gone(f)}
          /\ {r.file : r \in Records(new)} = {r.file : r \in {o \in Records(old) : ~Gone(o.file)}}

\* vendor and the root are excluded from a scan of the root, vendor, vendor/sub
\* and vendor2: vendor and vendor/sub are removed, vendor2 and the root stay
C30_Witness ==
    /\ call.op = "filter"
    /\ Range(call.excludeDirs) = {<<"vendor">>, <<".">>}
    /\ TreeKeys(call.before) = {<<".">>, <<"vendor">>, <<"vendor", "sub">>, <<"vendor2">>}
    /\ TreeKeys(heap[call.result]) = {<<".">>, <<"vendor2">>}
    /\ ScannedFiles(heap[call.result]) = {<<"index.ts">>, <<"vendor2", "m.ts">>}
    /\ \E r \in Records(heap[call.result]) : r.file = <<"vendor2", "m.ts">>

====
